---- MODULE Spec2Model ----
(***************************************************************************)
(* KubeSage chat gateway: the chat-completion pipeline                     *)
(* (app/chat.py), the tool-calling agent (app/agent.py), the provider      *)
(* adapters (app/adapters), the stored provider configuration              *)
(* (app/llm_config.py, app/database.py) and the cluster tools              *)
(* (app/k8s_tools.py).                                                     *)
(*                                                                         *)
(* Temperatures are written in tenths: 7 is 0.7, 20 is 2.0.                *)
(* An optional value is a sequence of length 0 (None) or 1 (the value).    *)
(***************************************************************************)
EXTENDS Integers, Sequences, FiniteSets, TLC

VARIABLES
    llm_configs,    \* table llm_configs: the set of its rows
    sessions,       \* table sessions: the set of rows inserted so far
    req,            \* the call frames of process_chat_request, one per request
    env,            \* what the surroundings can do: the tools the LLM may ask for,
                    \* the message lists and overrides clients send (fixed at Init)
    api_calls,      \* the calls made to the cluster API, in order
    tool_result,    \* the outcome of the last cluster tool invoked directly
    steps_in,       \* an executor result handed to _extract_tools_used
    tools_out,      \* what _extract_tools_used returned for it
    simple,         \* the last call of SimpleAgent.process_messages and its envelope
    wire,           \* the last call_raw of an adapter: what it sent and what it returned
    extracted,      \* the last call of extract_content_from_llm_response
    usage_call,     \* the last usage computation: its inputs and what it returned
    config_call,    \* the last request to the configuration endpoint and its answer
    lookup          \* the last request to a session endpoint and its answer

vars == <<llm_configs, sessions, req, env, api_calls, tool_result, steps_in, tools_out,
          simple, wire, extracted, usage_call, config_call, lookup>>

chat_vars == <<llm_configs, sessions, req>>
adapter_vars == <<simple, wire, extracted>>
query_vars == <<usage_call, config_call, lookup>>
not_chat == <<env, api_calls, tool_result, steps_in, tools_out, adapter_vars, query_vars>>
tool_vars == <<api_calls, tool_result>>
extract_vars == <<steps_in, tools_out>>

----------------------------------------------------------------------------
(* Optional values and results of calls that may raise.                    *)

None == <<>>
Some(x) == <<x>>
Get(o) == o[1]

Ok(v) == [ok |-> TRUE, val |-> v]
Raise(e) == [ok |-> FALSE, exc |-> e]

----------------------------------------------------------------------------
(* Bounds of the model.                                                    *)

\* Largest number of direct tool invocations followed in one behaviour.
MaxCalls == 2

\* Longest list of intermediate steps handed to _extract_tools_used directly.
MaxSteps == 3

Users == {1, 2}

----------------------------------------------------------------------------
(* Stored provider configuration: app/llm_config.py, app/database.py.      *)

SUPPORTED_PROVIDERS == {"openai", "groq", "gemini", "mistral", "openrouter", "anthropic"}

validate_provider_model(provider, model) == provider \in SUPPORTED_PROVIDERS

\* A row of llm_configs (its id and created_at are read by nothing).
config_row(user_id, provider, model, api_key, temperature) ==
    [user_id |-> user_id, provider |-> provider, model |-> model, api_key |-> api_key,
     temperature |-> temperature]

\* A plain INSERT into a table without UNIQUE(user_id).
db_insert_llm_config(table, user_id, provider, model, api_key, temperature) ==
    table \cup {config_row(user_id, provider, model, api_key, temperature)}

\* DatabaseManager.save_llm_config: INSERT OR REPLACE under UNIQUE(user_id)
\* deletes the rows of the same user_id before it inserts the new one.
db_save_llm_config(table, user_id, provider, model, api_key, temperature) ==
    {row \in table : row.user_id # user_id}
    \cup {config_row(user_id, provider, model, api_key, temperature)}

\* The rows of a user.
rows_of(table, user_id) == {row \in table : row.user_id = user_id}

\* DatabaseManager.get_llm_config: SELECT * ... WHERE user_id = ?, fetch_one:
\* the dict of the first row, None when there is none.
get_llm_config(table, user_id) ==
    IF rows_of(table, user_id) = {} THEN None
    ELSE LET row == CHOOSE row \in rows_of(table, user_id) : TRUE IN
         Some([provider |-> row.provider, model |-> row.model, api_key |-> row.api_key,
               temperature |-> row.temperature])

\* The configurations clients submit: two accepted ones, one with an unknown
\* provider and one with a temperature above 2.0.
ConfigInputs ==
    { [provider |-> "openai", model |-> "gpt-4", api_key |-> "sk-a", temperature |-> 7],
      [provider |-> "gemini", model |-> "gemini-pro", api_key |-> "sk-b", temperature |-> 20],
      [provider |-> "llamafile", model |-> "gpt-4", api_key |-> "sk-a", temperature |-> 7],
      [provider |-> "openai", model |-> "gpt-4", api_key |-> "sk-a", temperature |-> 25] }

\* save_llm_config, accepted: both validations pass and the row is written.
save_llm_config(user_id, config) ==
    /\ validate_provider_model(config.provider, config.model)
    /\ 0 <= config.temperature /\ config.temperature <= 20
    /\ llm_configs' = db_save_llm_config(llm_configs, user_id, config.provider,
                                         config.model, config.api_key, config.temperature)
    /\ UNCHANGED <<sessions, req, not_chat>>

\* save_llm_config, rejected: ValueError before anything is written.
save_llm_config_rejected(user_id, config) ==
    /\ \/ ~validate_provider_model(config.provider, config.model)
       \/ ~(0 <= config.temperature /\ config.temperature <= 20)
    /\ UNCHANGED <<llm_configs, sessions, req, not_chat>>

----------------------------------------------------------------------------
(* Text.  A text is a sequence of atoms; the atom " " is one whitespace    *)
(* character and every other atom is a run of non-whitespace characters.   *)

SP == " "

\* The words w1 .. wn joined by single spaces: "w1 w2 ... wn".
RECURSIVE Join(_)
Join(ws) ==
    IF Len(ws) = 0 THEN <<>>
    ELSE IF Len(ws) = 1 THEN <<ws[1]>>
    ELSE <<ws[1], SP>> \o Join(Tail(ws))

\* len(text.split()): the number of maximal runs of non-whitespace atoms.
count_tokens(text) ==
    Cardinality({i \in 1..Len(text) :
                    /\ text[i] # SP
                    /\ (i = 1 \/ text[i - 1] = SP)})

RECURSIVE SumSeq(_)
SumSeq(ns) == IF Len(ns) = 0 THEN 0 ELSE ns[1] + SumSeq(Tail(ns))

----------------------------------------------------------------------------
(* Provider adapters: app/adapters/__init__.py, base_adapter.py.           *)

ADAPTER_REGISTRY == {"groq", "openai", "gemini", "mistral", "openrouter", "anthropic"}

\* BaseLLMAdapter.__init__: nothing configured, no client.
new_adapter(provider) ==
    [provider |-> provider, api_key |-> None, model |-> None,
     temperature |-> 7, client |-> "none"]

\* get_adapter: a fresh instance of the registered class, or ValueError.
get_adapter(provider) ==
    IF provider \notin ADAPTER_REGISTRY
    THEN Raise([type |-> "ValueError", text |-> Join(<<"Unsupported", "provider">>)])
    ELSE Ok(new_adapter(provider))

\* BaseLLMAdapter.configure: stores the settings and opens a network client.
configure(adapter, api_key, model, temperature) ==
    [adapter EXCEPT !.api_key = Some(api_key), !.model = Some(model),
                    !.temperature = temperature, !.client = "open"]

\* BaseLLMAdapter.close: closes the client if there is one.
close(adapter) ==
    IF adapter.client # "none" THEN [adapter EXCEPT !.client = "closed"] ELSE adapter

\* get_langchain_llm (OpenAIAdapter, GeminiAdapter): the provider's chat model
\* when its LangChain package is installed, None on ImportError.
get_langchain_llm(adapter, installed) ==
    IF installed
    THEN Some([llm |-> adapter.provider, model |-> adapter.model,
               temperature |-> adapter.temperature])
    ELSE None

----------------------------------------------------------------------------
(* The agent: app/agent.py.                                                *)

max_iterations == 5

\* AgentExecutor(...) at _create_agent: return_intermediate_steps is not
\* passed, so the executor runs with the library default.
return_intermediate_steps == FALSE

\* KubeSageAgent.__init__ / _create_agent / get_agent: binds the tools to
\* get_langchain_llm(); binding to None raises.
get_agent(adapter, installed) ==
    LET llm == get_langchain_llm(adapter, installed) IN
    IF llm = None
    THEN Raise([type |-> "AttributeError",
                text |-> Join(<<"'NoneType'", "object", "has", "no", "attribute", "'bind'">>)])
    ELSE Ok([cls |-> "KubeSageAgent", llm |-> Get(llm), max_iterations |-> max_iterations])

\* An executor that allows one round too many.
should_continue_inclusive(iterations) == iterations <= max_iterations

\* The executor goes on while the round count is below max_iterations.
should_continue(iterations) == iterations < max_iterations

\* chat_history of process_messages: messages[:-1], each mapped by role;
\* a message of any other role is left out.
RECURSIVE history_of(_)
history_of(msgs) ==
    IF Len(msgs) = 0 THEN <<>>
    ELSE LET m == msgs[1]
             rest == history_of(Tail(msgs))
         IN IF m.role = "system"
            THEN <<[type |-> "SystemMessage", content |-> m.content]>> \o rest
            ELSE IF m.role = "assistant"
            THEN <<[type |-> "AIMessage", content |-> m.content]>> \o rest
            ELSE IF m.role = "user"
            THEN <<[type |-> "HumanMessage", content |-> m.content]>> \o rest
            ELSE rest

\* The inputs process_messages hands to agent_executor.ainvoke.
executor_inputs(messages) ==
    [input |-> messages[Len(messages)].content,
     chat_history |-> history_of(SubSeq(messages, 1, Len(messages) - 1))]

\* What agent_executor.ainvoke returns: the inputs and the output, and the
\* intermediate steps only when return_intermediate_steps is set.
executor_result(inputs, output, intermediate_steps) ==
    IF return_intermediate_steps
    THEN [input |-> inputs.input, chat_history |-> inputs.chat_history,
          output |-> output, intermediate_steps |-> intermediate_steps]
    ELSE [input |-> inputs.input, chat_history |-> inputs.chat_history,
          output |-> output]

\* The orders in which list(set(...)) may return the members of S.
Orders(S) ==
    {s \in [1..Cardinality(S) -> S] : \A i, j \in DOMAIN s : i # j => s[i] # s[j]}

\* The tool names _extract_tools_used collects before deduplicating: a step
\* is an (action, observation) tuple and contributes step[0].tool.
RECURSIVE collected_tools(_)
collected_tools(steps) ==
    IF Len(steps) = 0 THEN <<>>
    ELSE LET step == steps[1] IN
         IF Len(step) >= 2 /\ "tool" \in DOMAIN step[1]
         THEN <<step[1].tool>> \o collected_tools(Tail(steps))
         ELSE collected_tools(Tail(steps))

Range(s) == {s[i] : i \in DOMAIN s}

\* The collected list returned as it is, without set().
dedupe_skipped(tools_used) == {tools_used}

\* list(set(tools_used)): every order of the distinct names is possible.
dedupe(tools_used) == Orders(Range(tools_used))

\* _extract_tools_used: the lists it may return for an executor result.
_extract_tools_used(result) ==
    IF "intermediate_steps" \in DOMAIN result
    THEN dedupe(collected_tools(result.intermediate_steps))
    ELSE dedupe(<<>>)

StoppedOutput ==
    Join(<<"Agent", "stopped", "due", "to", "iteration", "limit", "or", "time", "limit.">>)

\* The except branch of process_messages: the error text with str(e) appended.
error_content(exc) ==
    Join(<<"I", "encountered", "an", "error", "while", "processing", "your", "request.",
           "This", "can", "sometimes", "be", "caused", "by", "an", "issue", "with", "the",
           "LLM", "provider's", "API", "or", "content", "filters.", "Details:">>)
    \o <<SP>> \o exc.text

\* An except branch that passes on str(e) alone.
error_response_bare(exc) == [content |-> exc.text, tools_used |-> <<>>]

\* process_messages, the except branch.
error_response(exc) == [content |-> error_content(exc), tools_used |-> <<>>]

\* process_messages, the normal return: the lists of tools it may report.
agent_responses(result) ==
    {[content |-> result.output, tools_used |-> tu] : tu \in _extract_tools_used(result)}

----------------------------------------------------------------------------
(* The response envelope: app/response_utils.py.                           *)

convert_to_openai_format(session_id, model, agent_response, request_messages) ==
    LET prompt_tokens ==
            SumSeq([i \in 1..Len(request_messages) |->
                        count_tokens(request_messages[i].content)])
        completion_tokens == count_tokens(agent_response.content)
    IN [id |-> session_id,
        object |-> "chat.completion",
        model |-> model,
        choices |-> <<[index |-> 0,
                       message |-> [role |-> "assistant",
                                    content |-> agent_response.content],
                       finish_reason |-> "stop"]>>,
        usage |-> [prompt_tokens |-> prompt_tokens,
                   completion_tokens |-> completion_tokens,
                   total_tokens |-> prompt_tokens + completion_tokens]]

\* json.dumps / json.loads of lists and dicts of strings and integers: the
\* document of a value, and the value of a document.
json_dumps(value) == [json |-> value]
json_loads(document) == document.json

\* A save_session that inserts nothing.
save_session_skipped(table, session_id, user_id, messages, response, tools_used) == table

\* DatabaseManager.save_session: one more row in the sessions table, its
\* messages, response and tools_used columns holding JSON documents.
save_session(table, session_id, user_id, messages, response, tools_used) ==
    table \cup {[session_id |-> session_id, user_id |-> user_id,
                 messages |-> json_dumps(messages),
                 response |-> json_dumps(response),
                 tools_used |-> json_dumps(tools_used)]}

----------------------------------------------------------------------------
(* process_chat_request: app/chat.py.  A frame is one call; it is cut at   *)
(* the points where the coroutine waits (the configuration query, each     *)
(* LLM call, each tool run, the session insert).                           *)

IdleFrame ==
    [pc |-> "idle", user_id |-> 0, request |-> None, llm_config |-> None,
     messages |-> <<>>, session_id |-> None, adapter |-> None, agent |-> None,
     run |-> None, agent_response |-> None, turn |-> "none",
     response |-> None, error |-> None]

\* The requests clients send: a message list of env.msgs, with or without a
\* model override and a temperature override (env.models, env.temperatures).
ModelOverrides == {None, Some("gpt-4-turbo")}
TemperatureOverrides == {None, Some(25)}

Requests ==
    {[messages |-> ms, model |-> mo, temperature |-> t] :
        ms \in env.msgs, mo \in env.models, t \in env.temperatures}

\* The request arrives and get_user_llm_config reads the user's row.
chat_begin(r, user_id, request) ==
    /\ req[r].pc = "idle"
    /\ req' = [req EXCEPT ![r] =
                [@ EXCEPT !.pc = "config", !.user_id = user_id,
                          !.request = Some(request),
                          !.llm_config = get_llm_config(llm_configs, user_id)]]
    /\ UNCHANGED <<llm_configs, sessions, not_chat>>

\* The stored configuration used as it is, whatever the request carries.
apply_overrides_ignored(llm_config, request) == llm_config

\* llm_config after the request's overrides ("if request.model", "if
\* request.temperature is not None").
apply_overrides(llm_config, request) ==
    LET c1 == IF request.model # None /\ Get(request.model) # ""
              THEN [llm_config EXCEPT !.model = Get(request.model)]
              ELSE llm_config
    IN IF request.temperature # None
       THEN [c1 EXCEPT !.temperature = Get(request.temperature)]
       ELSE c1

NoConfigurationError ==
    [type |-> "ValueError", text |-> Join(<<"No", "LLM", "configuration", "found.">>)]
EmptyMessagesError ==
    [type |-> "ValueError", text |-> Join(<<"The", "messages", "list", "is", "empty.">>)]

raised(f, exc) == [f EXCEPT !.pc = "raised", !.error = Some(exc)]

\* A request whose messages are taken as they come.
messages_unchecked(request) == FALSE

\* "if not request.messages or len(request.messages) == 0"
messages_missing(request) == Len(request.messages) = 0

\* KubeSageAgent.process_messages for an empty list: it answers without
\* calling the executor.
EmptyListResponse ==
    [content |-> Join(<<"I", "received", "an", "empty", "message", "list.">>),
     tools_used |-> <<>>]

\* process_messages has its AgentResponse; process_chat_request builds the
\* envelope and calls save_session.
finish_turn(f, agent_response, turn) ==
    [f EXCEPT !.agent_response = Some(agent_response),
              !.turn = turn,
              !.response = Some(convert_to_openai_format(
                                    Get(f.session_id), Get(f.llm_config).model,
                                    agent_response, f.messages)),
              !.pc = "saving"]

\* From the configuration check to the first LLM call: overrides, message
\* validation, session id, adapter, agent, and the start of process_messages.
\* uuid.uuid4().hex is a fresh identifier per call: the frame's own index.
\* `installed` tells whether the provider's LangChain package can be imported.
chat_prepare_frame(r, f, installed) ==
    IF f.llm_config = None
    THEN raised(f, NoConfigurationError)
    ELSE
    LET request == Get(f.request)
        llm_config == apply_overrides(Get(f.llm_config), request)
        f1 == [f EXCEPT !.llm_config = Some(llm_config)]
    IN
    IF messages_missing(request)
    THEN raised(f1, EmptyMessagesError)
    ELSE
    LET messages == [i \in 1..Len(request.messages) |->
                        [role |-> request.messages[i].role,
                         content |-> request.messages[i].content]]
        f2 == [f1 EXCEPT !.messages = messages, !.session_id = Some(r)]
        got == get_adapter(llm_config.provider)
    IN
    IF ~got.ok THEN raised(f2, got.exc)
    ELSE
    LET adapter == configure(got.val, llm_config.api_key, llm_config.model,
                             llm_config.temperature)
        f3 == [f2 EXCEPT !.adapter = Some(adapter)]
        agent == get_agent(adapter, installed)
    IN
    IF ~agent.ok THEN raised(f3, agent.exc)
    ELSE IF Len(messages) = 0
    THEN finish_turn([f3 EXCEPT !.agent = Some(agent.val)], EmptyListResponse, "finished")
    ELSE [f3 EXCEPT !.agent = Some(agent.val),
                    !.run = Some([inputs |-> executor_inputs(messages),
                                  iterations |-> 0,
                                  intermediate_steps |-> <<>>,
                                  llm_calls |-> 0,
                                  pending |-> None]),
                    !.pc = "reasoning"]

chat_prepare(r, installed) ==
    /\ req[r].pc = "config"
    /\ req' = [req EXCEPT ![r] = chat_prepare_frame(r, req[r], installed)]
    /\ UNCHANGED <<llm_configs, sessions, not_chat>>

FinalAnswer == Join(<<"Here", "are", "the", "pods.">>)

\* A reasoning round in which the LLM asks for the tool t.
agent_select_tool(r, t) ==
    /\ req[r].pc = "reasoning"
    /\ t \in env.tools
    /\ LET run == Get(req[r].run) IN
       req' = [req EXCEPT ![r] =
                [@ EXCEPT !.pc = "tool",
                          !.run = Some([run EXCEPT !.llm_calls = @ + 1,
                                                   !.pending = Some(t)])]]
    /\ UNCHANGED <<llm_configs, sessions, not_chat>>

\* A reasoning round in which the LLM gives its final answer.
agent_finish(r) ==
    /\ req[r].pc = "reasoning"
    /\ LET run == Get(req[r].run)
           run1 == [run EXCEPT !.llm_calls = @ + 1]
           result == executor_result(run.inputs, FinalAnswer, run.intermediate_steps)
       IN \E ar \in agent_responses(result) :
            req' = [req EXCEPT ![r] =
                     finish_turn([req[r] EXCEPT !.run = Some(run1)], ar, "finished")]
    /\ UNCHANGED <<llm_configs, sessions, not_chat>>

LLMError == [type |-> "Exception", text |-> Join(<<"Request", "failed">>)]
ToolError == [type |-> "Exception", text |-> Join(<<"Connection", "refused">>)]

\* A reasoning round in which the LLM call raises.
agent_llm_fails(r) ==
    /\ req[r].pc = "reasoning"
    /\ LET run == Get(req[r].run)
           run1 == [run EXCEPT !.llm_calls = @ + 1]
       IN req' = [req EXCEPT ![r] =
                   finish_turn([req[r] EXCEPT !.run = Some(run1)],
                               error_response(LLMError), "failed")]
    /\ UNCHANGED <<llm_configs, sessions, not_chat>>

\* The selected tool returns: the step is recorded and the round counted;
\* at the iteration cap the executor stops with its stopped response.
agent_tool_returns(r) ==
    /\ req[r].pc = "tool"
    /\ LET run == Get(req[r].run)
           step == <<[tool |-> Get(run.pending)], "observation">>
           run1 == [run EXCEPT !.intermediate_steps = Append(@, step),
                               !.iterations = @ + 1,
                               !.pending = None]
           f1 == [req[r] EXCEPT !.run = Some(run1)]
       IN IF should_continue(run1.iterations)
          THEN req' = [req EXCEPT ![r] = [f1 EXCEPT !.pc = "reasoning"]]
          ELSE \E ar \in agent_responses(
                            executor_result(run1.inputs, StoppedOutput,
                                            run1.intermediate_steps)) :
                 req' = [req EXCEPT ![r] = finish_turn(f1, ar, "capped")]
    /\ UNCHANGED <<llm_configs, sessions, not_chat>>

\* The selected tool raises something it does not catch itself.
agent_tool_raises(r) ==
    /\ req[r].pc = "tool"
    /\ LET run == Get(req[r].run)
           run1 == [run EXCEPT !.pending = None]
       IN req' = [req EXCEPT ![r] =
                   finish_turn([req[r] EXCEPT !.run = Some(run1)],
                               error_response(ToolError), "failed")]
    /\ UNCHANGED <<llm_configs, sessions, not_chat>>

\* save_session inserts the row and process_chat_request returns the envelope.
chat_save_session(r) ==
    /\ req[r].pc = "saving"
    /\ LET f == req[r] IN
       sessions' = save_session(sessions, Get(f.session_id), f.user_id, f.messages,
                                Get(f.response), Get(f.agent_response).tools_used)
    /\ req' = [req EXCEPT ![r] = [@ EXCEPT !.pc = "returned"]]
    /\ UNCHANGED <<llm_configs, not_chat>>

\* The insert fails (sqlite error); the exception leaves process_chat_request.
chat_save_session_fails(r) ==
    /\ req[r].pc = "saving"
    /\ req' = [req EXCEPT ![r] =
                raised(@, [type |-> "OperationalError",
                           text |-> Join(<<"database", "is", "locked">>)])]
    /\ UNCHANGED <<llm_configs, sessions, not_chat>>

----------------------------------------------------------------------------
(* The chat pipeline as a whole.                                           *)

UserMsg == [role |-> "user", content |-> Join(<<"list", "pods">>)]
SystemMsg == [role |-> "system", content |-> Join(<<"be", "brief">>)]
AssistantMsg == [role |-> "assistant", content |-> Join(<<"ok">>)]

InitTables ==
    /\ llm_configs = {}
    /\ sessions = {}

InitFrames == req = [r \in env.reqs |-> IdleFrame]

IdleTools == api_calls = <<>> /\ tool_result = None
IdleExtract == steps_in = None /\ tools_out = None
IdleAdapters == simple = None /\ wire = None /\ extracted = None
IdleQueries == usage_call = None /\ config_call = None /\ lookup = None

Init ==
    /\ env = [reqs |-> {1}, tools |-> {"list_pods", "del_pod"},
              msgs |-> {<<>>, <<UserMsg>>, <<SystemMsg, UserMsg>>,
                        <<UserMsg, AssistantMsg>>},
              models |-> ModelOverrides, temperatures |-> TemperatureOverrides]
    /\ InitTables /\ InitFrames /\ IdleTools /\ IdleExtract /\ IdleAdapters /\ IdleQueries

Next ==
    \/ \E u \in Users, c \in ConfigInputs : save_llm_config(u, c)
    \/ \E u \in Users, c \in ConfigInputs : save_llm_config_rejected(u, c)
    \/ \E r \in DOMAIN req, u \in Users, q \in Requests : chat_begin(r, u, q)
    \/ \E r \in DOMAIN req, installed \in BOOLEAN : chat_prepare(r, installed)
    \/ \E r \in DOMAIN req, t \in env.tools : agent_select_tool(r, t)
    \/ \E r \in DOMAIN req : agent_finish(r)
    \/ \E r \in DOMAIN req : agent_llm_fails(r)
    \/ \E r \in DOMAIN req : agent_tool_returns(r)
    \/ \E r \in DOMAIN req : agent_tool_raises(r)
    \/ \E r \in DOMAIN req : chat_save_session(r)
    \/ \E r \in DOMAIN req : chat_save_session_fails(r)

Spec == Init /\ [][Next]_vars

----------------------------------------------------------------------------
(* The delete tools: app/k8s_tools.py.  Each takes the resource, the       *)
(* confirmation flag and what the cluster API answers if it is called:     *)
(* "ok", "404" or "500" (an ApiException with that status) or "down"       *)
(* (an exception that is not an ApiException).  It yields what the tool    *)
(* returns or raises and the API calls it made.                            *)

ApiOutcomes == {"ok", "404", "500", "down"}

Text(pieces) == [kind |-> "text", body |-> pieces]
Dict(fields) == [kind |-> "dict", body |-> fields]

ApiExceptionText == "(500) Reason: Internal Server Error"
ConnectionError == [type |-> "MaxRetryError", text |-> Join(<<"Connection", "refused">>)]

\* try: <delete call>; return ok / except ApiException: 404 or other.
after_delete(api, ok, not_found, failed) ==
    CASE api = "ok" -> Ok(ok)
      [] api = "404" -> Ok(not_found)
      [] api = "500" -> Ok(failed)
      [] OTHER -> Raise(ConnectionError)

del_pod(name, namespace, confirm, api) ==
    IF ~confirm
    THEN [ret |-> Ok(Text(<<"Please confirm deletion of pod '", name, "' in namespace '",
                            namespace, "' by setting 'confirm=true'.">>)),
          calls |-> <<>>]
    ELSE [ret |-> after_delete(api,
                    Text(<<"Pod '", name, "' deleted from namespace '", namespace, "'.">>),
                    Text(<<"Pod '", name, "' not found in namespace '", namespace, "'.">>),
                    Text(<<"Error deleting pod '", name, "': ", ApiExceptionText>>)),
          calls |-> <<[api |-> "v1.delete_namespaced_pod", name |-> name,
                       namespace |-> Some(namespace)]>>]

del_ns(name, confirm, api) ==
    IF ~confirm
    THEN [ret |-> Ok(Text(<<"Please confirm deletion of namespace '", name,
                            "' by setting 'confirm=true'.">>)),
          calls |-> <<>>]
    ELSE [ret |-> after_delete(api,
                    Text(<<"Namespace '", name, "' deleted.">>),
                    Text(<<"Namespace '", name, "' not found.">>),
                    Text(<<"Error deleting namespace '", name, "': ", ApiExceptionText>>)),
          calls |-> <<[api |-> "v1.delete_namespace", name |-> name, namespace |-> None]>>]

delete_deploy(name, ns, confirm, api) ==
    IF ~confirm
    THEN [ret |-> Ok(Text(<<"Confirm deletion of deployment '", name, "' in namespace '",
                            ns, "' by setting confirm=True.">>)),
          calls |-> <<>>]
    ELSE [ret |-> after_delete(api,
                    Text(<<"Deployment '", name, "' deleted from namespace '", ns, "'.">>),
                    Text(<<"Deployment '", name, "' not found in namespace '", ns, "'.">>),
                    Text(<<"Error deleting deployment '", name, "': ", ApiExceptionText>>)),
          calls |-> <<[api |-> "apps_v1.delete_namespaced_deployment", name |-> name,
                       namespace |-> Some(ns)]>>]

delete_svc(name, ns, cfm, api) ==
    IF ~cfm
    THEN [ret |-> Ok(Text(<<"Confirm deletion of service '", name, "' in ns '", ns,
                            "' by setting cfm=True.">>)),
          calls |-> <<>>]
    ELSE [ret |-> after_delete(api,
                    Text(<<"Service '", name, "' deleted from ns '", ns, "'.">>),
                    Text(<<"Service '", name, "' not found in ns '", ns, "'.">>),
                    Text(<<"Error deleting service '", name, "': ", ApiExceptionText>>)),
          calls |-> <<[api |-> "v1.delete_namespaced_service", name |-> name,
                       namespace |-> Some(ns)]>>]

\* delete_secret and delete_ingress answer every ApiException, 404 included,
\* with the same error dict (its code field holds the status).
delete_secret(name, ns, confirm, api) ==
    IF ~confirm
    THEN [ret |-> Ok(Dict([status |-> "confirm_required", act |-> "delete_secret",
                           msg |-> <<"Confirm deletion of secret '", name,
                                     "' in namespace '", ns, "'">>])),
          calls |-> <<>>]
    ELSE [ret |-> after_delete(api,
                    Dict([status |-> "success", act |-> "delete_secret",
                          name |-> name, ns |-> ns]),
                    Dict([status |-> "error", act |-> "delete_secret",
                          name |-> name, ns |-> ns, code |-> 404]),
                    Dict([status |-> "error", act |-> "delete_secret",
                          name |-> name, ns |-> ns, code |-> 500])),
          calls |-> <<[api |-> "v1.delete_namespaced_secret", name |-> name,
                       namespace |-> Some(ns)]>>]

delete_ingress(name, ns, confirm, api) ==
    IF ~confirm
    THEN [ret |-> Ok(Dict([status |-> "confirm_needed", act |-> "delete_ingress",
                           name |-> name, ns |-> ns,
                           msg |-> <<"Confirm deletion by saying: 'yes, delete ingress ",
                                     name, "'">>])),
          calls |-> <<>>]
    ELSE [ret |-> after_delete(api,
                    Dict([status |-> "success", act |-> "delete_ingress",
                          name |-> name, ns |-> ns]),
                    Dict([status |-> "error", act |-> "delete_ingress",
                          name |-> name, ns |-> ns, code |-> 404]),
                    Dict([status |-> "error", act |-> "delete_ingress",
                          name |-> name, ns |-> ns, code |-> 500])),
          calls |-> <<[api |-> "networking_v1.delete_namespaced_ingress", name |-> name,
                       namespace |-> Some(ns)]>>]

\* del_pvc without its confirmation check.
del_pvc_unguarded(n, ns, c, api) ==
    [ret |-> after_delete(api,
                Text(<<"PVC '", n, "' deleted from ns '", ns, "'.">>),
                Text(<<"PVC '", n, "' not found in ns '", ns, "'.">>),
                Text(<<"Err deleting PVC '", n, "': ", ApiExceptionText>>)),
     calls |-> <<[api |-> "v1.delete_namespaced_persistent_volume_claim",
                  name |-> n, namespace |-> Some(ns)]>>]

del_pvc(n, ns, c, api) ==
    IF ~c
    THEN [ret |-> Ok(Text(<<"Confirm to delete PVC '", n, "' in ns '", ns,
                            "'. Say: yes, delete pvc ", n, ".">>)),
          calls |-> <<>>]
    ELSE [ret |-> after_delete(api,
                    Text(<<"PVC '", n, "' deleted from ns '", ns, "'.">>),
                    Text(<<"PVC '", n, "' not found in ns '", ns, "'.">>),
                    Text(<<"Err deleting PVC '", n, "': ", ApiExceptionText>>)),
          calls |-> <<[api |-> "v1.delete_namespaced_persistent_volume_claim",
                       name |-> n, namespace |-> Some(ns)]>>]

delete_hpa(name, ns, confirm, api) ==
    IF ~confirm
    THEN [ret |-> Ok(Text(<<"Confirmation required to delete HPA '", name,
                            "' in namespace '", ns,
                            "'. Please confirm by saying 'yes, delete hpa ", name, "'.">>)),
          calls |-> <<>>]
    ELSE [ret |-> after_delete(api,
                    Text(<<"HPA '", name, "' deleted successfully from namespace '", ns, "'.">>),
                    Text(<<"HPA '", name, "' not found in namespace '", ns, "'.">>),
                    Text(<<"Error deleting HPA '", name, "': ", ApiExceptionText>>)),
          calls |-> <<[api |-> "autoscaling_v1.delete_namespaced_horizontal_pod_autoscaler",
                       name |-> name, namespace |-> Some(ns)]>>]

DeleteTools == {"del_pod", "del_ns", "delete_deploy", "delete_svc", "delete_secret",
                "delete_ingress", "del_pvc", "delete_hpa"}

\* The cluster API call each delete tool is for.
DeleteCall ==
    [del_pod |-> "v1.delete_namespaced_pod",
     del_ns |-> "v1.delete_namespace",
     delete_deploy |-> "apps_v1.delete_namespaced_deployment",
     delete_svc |-> "v1.delete_namespaced_service",
     delete_secret |-> "v1.delete_namespaced_secret",
     delete_ingress |-> "networking_v1.delete_namespaced_ingress",
     del_pvc |-> "v1.delete_namespaced_persistent_volume_claim",
     delete_hpa |-> "autoscaling_v1.delete_namespaced_horizontal_pod_autoscaler"]

Names == {"web", "db"}
Namespaces == {"default"}

\* The confirmation flag as the caller passes it: left out, false or true.
Flags == {None, Some(FALSE), Some(TRUE)}

\* The flag the tool sees: its default is False.
flag(given) == IF given = None THEN FALSE ELSE Get(given)

\* What is kept of one direct invocation of a delete tool.
outcome(tool, name, ns, given, out) ==
    Some([tool |-> tool, name |-> name, ns |-> ns, flag |-> given,
          ret |-> out.ret, calls |-> out.calls])

\* del_pod is invoked; the API calls it makes reach the cluster.
call_del_pod(name, ns, given, api) ==
    /\ Len(api_calls) < MaxCalls
    /\ api_calls' = api_calls \o del_pod(name, ns, flag(given), api).calls
    /\ tool_result' = outcome("del_pod", name, Some(ns), given, del_pod(name, ns, flag(given), api))
    /\ UNCHANGED <<chat_vars, env, extract_vars, adapter_vars, query_vars>>

\* del_ns is invoked; the API calls it makes reach the cluster.
call_del_ns(name, given, api) ==
    /\ Len(api_calls) < MaxCalls
    /\ api_calls' = api_calls \o del_ns(name, flag(given), api).calls
    /\ tool_result' = outcome("del_ns", name, None, given, del_ns(name, flag(given), api))
    /\ UNCHANGED <<chat_vars, env, extract_vars, adapter_vars, query_vars>>

\* delete_deploy is invoked; the API calls it makes reach the cluster.
call_delete_deploy(name, ns, given, api) ==
    /\ Len(api_calls) < MaxCalls
    /\ api_calls' = api_calls \o delete_deploy(name, ns, flag(given), api).calls
    /\ tool_result' = outcome("delete_deploy", name, Some(ns), given, delete_deploy(name, ns, flag(given), api))
    /\ UNCHANGED <<chat_vars, env, extract_vars, adapter_vars, query_vars>>

\* delete_svc is invoked; the API calls it makes reach the cluster.
call_delete_svc(name, ns, given, api) ==
    /\ Len(api_calls) < MaxCalls
    /\ api_calls' = api_calls \o delete_svc(name, ns, flag(given), api).calls
    /\ tool_result' = outcome("delete_svc", name, Some(ns), given, delete_svc(name, ns, flag(given), api))
    /\ UNCHANGED <<chat_vars, env, extract_vars, adapter_vars, query_vars>>

\* delete_secret is invoked; the API calls it makes reach the cluster.
call_delete_secret(name, ns, given, api) ==
    /\ Len(api_calls) < MaxCalls
    /\ api_calls' = api_calls \o delete_secret(name, ns, flag(given), api).calls
    /\ tool_result' = outcome("delete_secret", name, Some(ns), given, delete_secret(name, ns, flag(given), api))
    /\ UNCHANGED <<chat_vars, env, extract_vars, adapter_vars, query_vars>>

\* delete_ingress is invoked; the API calls it makes reach the cluster.
call_delete_ingress(name, ns, given, api) ==
    /\ Len(api_calls) < MaxCalls
    /\ api_calls' = api_calls \o delete_ingress(name, ns, flag(given), api).calls
    /\ tool_result' = outcome("delete_ingress", name, Some(ns), given, delete_ingress(name, ns, flag(given), api))
    /\ UNCHANGED <<chat_vars, env, extract_vars, adapter_vars, query_vars>>

\* del_pvc is invoked; the API calls it makes reach the cluster.
call_del_pvc(name, ns, given, api) ==
    /\ Len(api_calls) < MaxCalls
    /\ api_calls' = api_calls \o del_pvc(name, ns, flag(given), api).calls
    /\ tool_result' = outcome("del_pvc", name, Some(ns), given, del_pvc(name, ns, flag(given), api))
    /\ UNCHANGED <<chat_vars, env, extract_vars, adapter_vars, query_vars>>

\* delete_hpa is invoked; the API calls it makes reach the cluster.
call_delete_hpa(name, ns, given, api) ==
    /\ Len(api_calls) < MaxCalls
    /\ api_calls' = api_calls \o delete_hpa(name, ns, flag(given), api).calls
    /\ tool_result' = outcome("delete_hpa", name, Some(ns), given, delete_hpa(name, ns, flag(given), api))
    /\ UNCHANGED <<chat_vars, env, extract_vars, adapter_vars, query_vars>>

IdleChat ==
    /\ env = [reqs |-> {}, tools |-> {}, msgs |-> {}, models |-> {}, temperatures |-> {}]
    /\ InitTables /\ InitFrames

InitTools == IdleChat /\ IdleTools /\ IdleExtract /\ IdleAdapters /\ IdleQueries

NextTools ==
    \/ \E n \in Names, ns \in Namespaces, g \in Flags, a \in ApiOutcomes : call_delete_ingress(n, ns, g, a)
    \/ \E n \in Names, ns \in Namespaces, g \in Flags, a \in ApiOutcomes : call_del_pod(n, ns, g, a)
    \/ \E n \in Names, g \in Flags, a \in ApiOutcomes : call_del_ns(n, g, a)
    \/ \E n \in Names, ns \in Namespaces, g \in Flags, a \in ApiOutcomes : call_delete_deploy(n, ns, g, a)
    \/ \E n \in Names, ns \in Namespaces, g \in Flags, a \in ApiOutcomes : call_delete_svc(n, ns, g, a)
    \/ \E n \in Names, ns \in Namespaces, g \in Flags, a \in ApiOutcomes : call_delete_secret(n, ns, g, a)
    \/ \E n \in Names, ns \in Namespaces, g \in Flags, a \in ApiOutcomes : call_del_pvc(n, ns, g, a)
    \/ \E n \in Names, ns \in Namespaces, g \in Flags, a \in ApiOutcomes : call_delete_hpa(n, ns, g, a)

SpecTools == InitTools /\ [][NextTools]_vars

----------------------------------------------------------------------------
(* _extract_tools_used on its own: executor results with up to MaxSteps    *)
(* intermediate steps, and results without the key.                        *)

StepTools == {"list_pods", "del_pod", "get_events"}

\* An (action, observation) tuple, or a tuple too short to be one.
StepInputs == {<<[tool |-> t], "observation">> : t \in StepTools} \cup {<<"observation">>}

StepLists == UNION {[1..n -> StepInputs] : n \in 0..MaxSteps}

ResultInputs ==
    {[output |-> FinalAnswer, intermediate_steps |-> steps] : steps \in StepLists}
    \cup {[output |-> FinalAnswer]}

extract(result) ==
    /\ steps_in' = Some(result)
    /\ \E out \in _extract_tools_used(result) : tools_out' = Some(out)
    /\ UNCHANGED <<chat_vars, env, tool_vars, adapter_vars, query_vars>>

InitExtract == IdleChat /\ IdleTools /\ IdleExtract /\ IdleAdapters /\ IdleQueries

NextExtract == \E result \in ResultInputs : extract(result)

SpecExtract == InitExtract /\ [][NextExtract]_vars

----------------------------------------------------------------------------
(* Values of the provider's JSON bodies and of the Python objects built    *)
(* from them.  A value carries its type: a string holds a text, a list a   *)
(* sequence of values, a dict a function from its keys to values.          *)

Str(s) == [t |-> "str", str |-> s]
List(xs) == [t |-> "list", list |-> xs]
Obj(fields) == [t |-> "dict", dict |-> fields]
Num(n) == [t |-> "int", int |-> n]
Null == [t |-> "none"]

NoFields == [k \in {} |-> Null]

\* bool(x): None, 0, "", [] and {} are false.
Truthy(x) ==
    CASE x.t = "none" -> FALSE
      [] x.t = "int" -> x.int # 0
      [] x.t = "str" -> Len(x.str) > 0
      [] x.t = "list" -> Len(x.list) > 0
      [] OTHER -> DOMAIN x.dict # {}

\* hasattr(x, "get"): only a dict has .get.
has_get(x) == x.t = "dict"

\* d.get(key, default) on a dict d.
get(d, key, default) == IF key \in DOMAIN d.dict THEN d.dict[key] ELSE default

\* A one-word text.
Word(w) == Str(<<w>>)

\* The canonical response: one choice at index 0 and the usage block.
canonical(content, finish_reason, prompt_tokens, completion_tokens, total_tokens) ==
    Obj([choices |-> List(<<Obj([index |-> Num(0),
                                 message |-> Obj([role |-> Word("assistant"),
                                                  content |-> content]),
                                 finish_reason |-> finish_reason])>>),
         usage |-> Obj([prompt_tokens |-> prompt_tokens,
                        completion_tokens |-> completion_tokens,
                        total_tokens |-> total_tokens])])

----------------------------------------------------------------------------
(* SimpleAgent: app/agent.py.  The texts it reads are written character by *)
(* character, so that lower() and the substring test act on characters.    *)

UpperCase == <<"A", "B", "C", "D", "E", "F", "G", "H", "I", "J", "K", "L", "M",
               "N", "O", "P", "Q", "R", "S", "T", "U", "V", "W", "X", "Y", "Z">>
LowerCase == <<"a", "b", "c", "d", "e", "f", "g", "h", "i", "j", "k", "l", "m",
               "n", "o", "p", "q", "r", "s", "t", "u", "v", "w", "x", "y", "z">>

lower_char(c) ==
    IF \E i \in DOMAIN UpperCase : UpperCase[i] = c
    THEN LowerCase[CHOOSE i \in DOMAIN UpperCase : UpperCase[i] = c]
    ELSE c

\* str.lower()
lower(text) == [i \in DOMAIN text |-> lower_char(text[i])]

\* `sub in text` for strings: sub occurs as a contiguous run of characters.
contains(text, sub) ==
    \E i \in 0..(Len(text) - Len(sub)) : SubSeq(text, i + 1, i + Len(sub)) = sub

\* keyword_map of _select_tool_by_keywords, in the order of its items().
keyword_map ==
    << [keyword |-> <<"p", "o", "d", "s">>, tool_name |-> "get_pods"],
       [keyword |-> <<"s", "e", "r", "v", "i", "c", "e", "s">>, tool_name |-> "get_services"],
       [keyword |-> <<"d", "e", "p", "l", "o", "y", "m", "e", "n", "t", "s">>,
        tool_name |-> "get_deployments"],
       [keyword |-> <<"l", "o", "g", "s">>, tool_name |-> "get_logs"],
       [keyword |-> <<"d", "e", "s", "c", "r", "i", "b", "e">>, tool_name |-> "describe_resource"],
       [keyword |-> <<"c", "r", "e", "a", "t", "e">>, tool_name |-> "create_resource"],
       [keyword |-> <<"d", "e", "l", "e", "t", "e">>, tool_name |-> "delete_resource"],
       [keyword |-> <<"s", "c", "a", "l", "e">>, tool_name |-> "scale_deployment"] >>

\* A member of the list k8s_tools: a plain function, which has the
\* attribute __name__ and no attribute name.
function(f) == [__name__ |-> f]

\* The list k8s_tools of app/k8s_tools.py.
k8s_tools ==
    << function("list_namespaces"), function("get_pod"), function("list_pods"),
       function("get_pod_logs"), function("get_events"), function("get_deploy_status"),
       function("get_configmap"), function("get_secret"), function("create_secret"),
       function("delete_secret"), function("get_ingress"), function("create_ingress"),
       function("delete_ingress"), function("get_node_status"),
       function("get_cluster_status"), function("get_hpa_status"), function("list_hpas"),
       function("create_hpa"), function("delete_hpa"), function("desc_res"),
       function("create_pod"), function("del_pod"), function("create_ns"),
       function("del_ns"), function("create_deploy"), function("delete_deploy"),
       function("scale_deployments"), function("create_svc"), function("delete_svc"),
       function("list_svc"), function("list_deployments"), function("create_pvc"),
       function("del_pvc"), function("get_pvc"), function("list_pvcs"),
       function("list_network_policies") >>

\* for tool in self.tools: if hasattr(tool, 'name') and tool.name == tool_name
RECURSIVE first_named(_, _)
first_named(tools, tool_name) ==
    IF Len(tools) = 0 THEN None
    ELSE IF "name" \in DOMAIN tools[1] /\ tools[1].name = tool_name
    THEN Some(tools[1])
    ELSE first_named(Tail(tools), tool_name)

\* for keyword, tool_name in keyword_map.items(): if keyword in user_input_lower
RECURSIVE select_from(_, _)
select_from(entries, user_input_lower) ==
    IF Len(entries) = 0 THEN None
    ELSE LET found == IF contains(user_input_lower, entries[1].keyword)
                      THEN first_named(k8s_tools, entries[1].tool_name)
                      ELSE None
         IN IF found # None THEN found
            ELSE select_from(Tail(entries), user_input_lower)

_select_tool_by_keywords(user_input) == select_from(keyword_map, lower(user_input))

DefaultReply == Join(<<"I'm", "not", "sure", "how", "to", "help", "with", "that.">>)

\* SimpleAgent.process_messages; llm_outcome is what call_raw of its adapter
\* returns or raises when it is called.
SimpleAgent_process_messages(messages, llm_outcome) ==
    LET user_input == IF Len(messages) > 0 THEN messages[Len(messages)].content ELSE <<>>
        selected_tool == _select_tool_by_keywords(user_input)
    IN IF selected_tool # None
       THEN [content |-> Join(<<"I", "used", "the", Get(selected_tool).name, "tool.",
                                "Tool", "execution", "simulated">>),
             tools_used |-> <<Get(selected_tool).name>>]
       ELSE IF ~llm_outcome.ok
       THEN [content |-> Join(<<"I", "encountered", "an", "error:">>)
                         \o <<SP>> \o llm_outcome.exc.text,
             tools_used |-> <<>>]
       ELSE [content |-> get(llm_outcome.val, "content", Str(DefaultReply)).str,
             tools_used |-> <<>>]

\* MockAdapter.call_raw
MockAdapter_call_raw(messages) ==
    LET last_message == IF Len(messages) > 0 THEN messages[Len(messages)].content
                        ELSE <<"H", "e", "l", "l", "o">>
    IN canonical(Str(Join(<<"Mock", "response", "to:">>) \o <<SP>> \o last_message),
                 Word("stop"), Num(10), Num(5), Num(15))

\* _make_request: any failure of the POST is raised again as Exception.
RequestFailed == [type |-> "Exception", text |-> Join(<<"Request", "failed:", "timeout">>)]

\* The adapters a SimpleAgent is given: the mock, an adapter whose request
\* fails, and an adapter whose provider answers with a top-level content.
SimpleAdapters == {"mock", "failing", "direct"}

DirectReply == <<"o", "k">>

simple_call_raw(adapter, messages) ==
    CASE adapter = "mock" -> Ok(MockAdapter_call_raw(messages))
      [] adapter = "failing" -> Raise(RequestFailed)
      [] OTHER -> Ok(Obj([content |-> Str(DirectReply)]))

ListPodsInDefault ==
    <<"l", "i", "s", "t", " ", "p", "o", "d", "s", " ", "i", "n", " ",
      "d", "e", "f", "a", "u", "l", "t">>
ShowPODS == <<"S", "h", "o", "w", " ", "P", "O", "D", "S">>
ScaleWeb == <<"s", "c", "a", "l", "e", " ", "w", "e", "b">>
Hello == <<"h", "e", "l", "l", "o">>

SimpleTexts == {ListPodsInDefault, ShowPODS, ScaleWeb, Hello}

\* Longest message list handed to SimpleAgent.process_messages.
MaxMsgs == 2

SimpleMessages == {[role |-> r, content |-> c] : r \in {"user", "assistant"}, c \in SimpleTexts}
SimpleMessageLists == UNION {[1..n -> SimpleMessages] : n \in 0..MaxMsgs}

\* A call of SimpleAgent.process_messages about to be made: the messages and
\* the adapter the agent was built over.
SimpleCalls ==
    {[pc |-> "call", messages |-> messages, adapter |-> adapter] :
        messages \in SimpleMessageLists, adapter \in SimpleAdapters}

\* The SimpleAgent handles the messages and the envelope is built from its
\* AgentResponse, as process_chat_request does with the agent it holds.
simple_chat ==
    /\ simple # None
    /\ Get(simple).pc = "call"
    /\ LET messages == Get(simple).messages
           adapter == Get(simple).adapter
           llm_outcome == simple_call_raw(adapter, messages)
           agent_response == SimpleAgent_process_messages(messages, llm_outcome)
       IN simple' = Some([pc |-> "done",
                          messages |-> messages,
                          adapter |-> adapter,
                          llm_outcome |-> llm_outcome,
                          agent_response |-> agent_response,
                          response |-> convert_to_openai_format(
                                          1, "mock-model", agent_response, messages)])
    /\ UNCHANGED <<chat_vars, env, tool_vars, extract_vars, wire, extracted, query_vars>>

InitSimple ==
    /\ IdleChat /\ IdleTools /\ IdleExtract /\ IdleQueries
    /\ simple \in {Some(c) : c \in SimpleCalls}
    /\ wire = None /\ extracted = None

NextSimple == simple_chat

SpecSimple == InitSimple /\ [][NextSimple]_vars

----------------------------------------------------------------------------
(* What the adapters send: app/adapters.  format_messages and the payload  *)
(* of each provider family.                                                *)

\* An adapter as process_chat_request configures it.
configured(provider) == configure(new_adapter(provider), "sk-a", "model-x", 7)

\* BaseLLMAdapter.format_messages (also Groq, Mistral, OpenRouter): unchanged.
format_messages(messages) == messages

\* BaseLLMAdapter._prepare_payload
_prepare_payload(adapter, messages) ==
    [model |-> Get(adapter.model),
     messages |-> format_messages(messages),
     temperature |-> adapter.temperature]

SystemPrefix == <<"System:", SP>>

\* A format_messages for Gemini that leaves the content of a system message
\* as it is.
GeminiAdapter_format_messages_unprefixed(messages) ==
    [i \in 1..Len(messages) |->
        [role |-> IF messages[i].role = "assistant" THEN "model"
                  ELSE IF messages[i].role = "system" THEN "user"
                  ELSE messages[i].role,
         parts |-> <<[text |-> messages[i].content]>>]]

\* GeminiAdapter.format_messages
GeminiAdapter_format_messages(messages) ==
    [i \in 1..Len(messages) |->
        LET msg == messages[i] IN
        IF msg.role = "assistant"
        THEN [role |-> "model", parts |-> <<[text |-> msg.content]>>]
        ELSE IF msg.role = "system"
        THEN [role |-> "user", parts |-> <<[text |-> SystemPrefix \o msg.content]>>]
        ELSE [role |-> msg.role, parts |-> <<[text |-> msg.content]>>]]

\* GeminiAdapter._prepare_gemini_payload
_prepare_gemini_payload(adapter, messages) ==
    [contents |-> GeminiAdapter_format_messages(messages),
     generationConfig |-> [temperature |-> adapter.temperature,
                           maxOutputTokens |-> 2048]]

\* A loop that keeps the first system message it meets.
RECURSIVE anthropic_scan_first(_, _, _)
anthropic_scan_first(msgs, anthropic_messages, system_content) ==
    IF Len(msgs) = 0
    THEN [anthropic_messages |-> anthropic_messages, system_content |-> system_content]
    ELSE IF msgs[1].role = "system"
    THEN anthropic_scan_first(Tail(msgs), anthropic_messages,
                              IF system_content = <<>> THEN msgs[1].content
                              ELSE system_content)
    ELSE anthropic_scan_first(Tail(msgs),
                              Append(anthropic_messages,
                                     [role |-> msgs[1].role, content |-> msgs[1].content]),
                              system_content)

\* The loop of AnthropicAdapter.format_messages over the messages left.
RECURSIVE anthropic_scan(_, _, _)
anthropic_scan(msgs, anthropic_messages, system_content) ==
    IF Len(msgs) = 0
    THEN [anthropic_messages |-> anthropic_messages, system_content |-> system_content]
    ELSE IF msgs[1].role = "system"
    THEN anthropic_scan(Tail(msgs), anthropic_messages, msgs[1].content)
    ELSE anthropic_scan(Tail(msgs),
                        Append(anthropic_messages,
                               [role |-> msgs[1].role, content |-> msgs[1].content]),
                        system_content)

\* AnthropicAdapter.format_messages: the pair (anthropic_messages, system_content).
AnthropicAdapter_format_messages(messages) == anthropic_scan(messages, <<>>, <<>>)

\* AnthropicAdapter._prepare_anthropic_payload: the key system is set only
\* when system_content is not empty.
_prepare_anthropic_payload(adapter, messages) ==
    LET formatted == AnthropicAdapter_format_messages(messages) IN
    IF Len(formatted.system_content) > 0
    THEN [model |-> Get(adapter.model), max_tokens |-> 4096,
          temperature |-> adapter.temperature,
          messages |-> formatted.anthropic_messages,
          system |-> formatted.system_content]
    ELSE [model |-> Get(adapter.model), max_tokens |-> 4096,
          temperature |-> adapter.temperature,
          messages |-> formatted.anthropic_messages]

\* BaseLLMAdapter._make_request: the parsed body of a 2xx reply; any other
\* status is raised as an Exception carrying the status and the body text.
_make_request(reply) ==
    IF reply.status = 200 THEN Ok(reply.body)
    ELSE Raise([type |-> "Exception",
                text |-> Join(<<"API", "request", "failed:", "500", "-">>)
                         \o <<SP>> \o reply.body.str])

----------------------------------------------------------------------------
(* What the adapters return: the translation of the provider's body.  The  *)
(* body of a try block yields Ok(value) or Raise(exception); the except    *)
(* branch turns the exception into the error response.                     *)

\* type(x).__name__ as Python's messages quote it.
py_type(x) ==
    CASE x.t = "none" -> "'NoneType'"
      [] x.t = "int" -> "'int'"
      [] x.t = "str" -> "'str'"
      [] x.t = "list" -> "'list'"
      [] OTHER -> "'dict'"

\* x.get(...) on a value that is not a dict.
no_get(x) ==
    [type |-> "AttributeError",
     text |-> Join(<<py_type(x), "object", "has", "no", "attribute", "'get'">>)]

\* len(x) on a number.
no_len(x) ==
    [type |-> "TypeError",
     text |-> Join(<<"object", "of", "type", py_type(x), "has", "no", "len()">>)]

\* x[0] on a dict, which has no key 0.
no_key_0 == [type |-> "KeyError", text |-> <<"0">>]

\* for ... in x on None or a number.
not_iterable(x) ==
    [type |-> "TypeError", text |-> Join(<<py_type(x), "object", "is", "not", "iterable">>)]

\* str + x for an x that is not a str.
no_concat(x) ==
    [type |-> "TypeError",
     text |-> Join(<<"can", "only", "concatenate", "str", "(not">>) \o <<SP>>
              \o <<py_type(x)>> \o Join(<<")", "to", "str">>)]

\* a + b for values that are not both numbers.
no_add(a, b) ==
    [type |-> "TypeError",
     text |-> Join(<<"unsupported", "operand", "type(s)", "for", "+:",
                     py_type(a), "and", py_type(b)>>)]

\* What `xs and len(xs) > 0` followed by xs[0].get raises for a true xs
\* that is not a list: len() of a number, [0] of a dict, .get of a character.
first_get_error(xs) ==
    CASE xs.t = "int" -> no_len(xs)
      [] xs.t = "dict" -> no_key_0
      [] OTHER -> no_get(Str(<<>>))

\* An index that takes the last member of a list.
last_of(xs) == xs.list[Len(xs.list)]

\* xs[0]
first_of(xs) == xs.list[1]

NoResponseGenerated == Join(<<"No", "response", "generated">>)
NoContent == Join(<<"No", "content">>)

\* _convert_gemini_to_openai, lines 78-83: the content.
gemini_content(response) ==
    LET candidates == get(response, "candidates", List(<<>>)) IN
    IF ~Truthy(candidates) THEN Ok(Str(NoResponseGenerated))
    ELSE IF candidates.t # "list" THEN Raise(first_get_error(candidates))
    ELSE IF ~has_get(first_of(candidates)) THEN Raise(no_get(first_of(candidates)))
    ELSE
    LET content_data == get(first_of(candidates), "content", Obj(NoFields)) IN
    IF ~has_get(content_data) THEN Raise(no_get(content_data))
    ELSE
    LET parts == get(content_data, "parts", List(<<>>)) IN
    IF ~Truthy(parts) THEN Ok(Str(NoContent))
    ELSE IF parts.t # "list" THEN Raise(first_get_error(parts))
    ELSE IF ~has_get(first_of(parts)) THEN Raise(no_get(first_of(parts)))
    ELSE Ok(get(first_of(parts), "text", Str(<<>>)))

\* _convert_gemini_to_openai, the try block.
gemini_try(response) ==
    IF ~has_get(response) THEN Raise(no_get(response))
    ELSE
    LET content == gemini_content(response) IN
    IF ~content.ok THEN content
    ELSE
    LET usageMetadata == get(response, "usageMetadata", Obj(NoFields)) IN
    IF ~has_get(usageMetadata) THEN Raise(no_get(usageMetadata))
    ELSE Ok(canonical(content.val, Word("stop"),
                      get(usageMetadata, "promptTokenCount", Num(0)),
                      get(usageMetadata, "candidatesTokenCount", Num(0)),
                      get(usageMetadata, "totalTokenCount", Num(0))))

\* The error response of an except branch: "Error parsing <provider>
\* response: <str(e)>", finish_reason "error", usage 0.
parse_error(provider, exc) ==
    canonical(Str(Join(<<"Error", "parsing", provider, "response:">>) \o <<SP>> \o exc.text),
              Word("error"), Num(0), Num(0), Num(0))

\* GeminiAdapter._convert_gemini_to_openai
_convert_gemini_to_openai(response) ==
    LET r == gemini_try(response) IN
    IF r.ok THEN r.val ELSE parse_error("Gemini", r.exc)

\* The for loop of _convert_anthropic_to_openai over the blocks left:
\* content += block.get("text", "") for every block of type "text".
RECURSIVE anthropic_blocks(_, _)
anthropic_blocks(blocks, content) ==
    IF Len(blocks) = 0 THEN Ok(content)
    ELSE LET block == blocks[1] IN
         IF ~has_get(block) THEN Raise(no_get(block))
         ELSE IF get(block, "type", Null) # Word("text")
         THEN anthropic_blocks(Tail(blocks), content)
         ELSE LET text == get(block, "text", Str(<<>>)) IN
              IF text.t # "str" THEN Raise(no_concat(text))
              ELSE anthropic_blocks(Tail(blocks), content \o text.str)

\* for block in content_blocks: a list gives its members, a string its
\* characters and a dict its keys (strings, which have no .get); None and a
\* number cannot be iterated.
anthropic_loop(content_blocks) ==
    CASE content_blocks.t = "list" -> anthropic_blocks(content_blocks.list, <<>>)
      [] content_blocks.t \in {"none", "int"} -> Raise(not_iterable(content_blocks))
      [] OTHER -> IF Truthy(content_blocks) THEN Raise(no_get(Str(<<>>))) ELSE Ok(<<>>)

\* A translation that leaves an empty content empty.
content_kept(content) == content

\* if not content: content = "No response generated"
content_or_default(content) == IF content = <<>> THEN NoResponseGenerated ELSE content

\* _convert_anthropic_to_openai, the try block.
anthropic_try(response) ==
    IF ~has_get(response) THEN Raise(no_get(response))
    ELSE
    LET content == anthropic_loop(get(response, "content", List(<<>>))) IN
    IF ~content.ok THEN content
    ELSE
    LET usage == get(response, "usage", Obj(NoFields)) IN
    IF ~has_get(usage) THEN Raise(no_get(usage))
    ELSE
    LET input_tokens == get(usage, "input_tokens", Num(0))
        output_tokens == get(usage, "output_tokens", Num(0))
    IN
    IF input_tokens.t # "int" \/ output_tokens.t # "int"
    THEN Raise(no_add(input_tokens, output_tokens))
    ELSE Ok(canonical(Str(content_or_default(content.val)),
                      get(response, "stop_reason", Word("stop")),
                      input_tokens, output_tokens,
                      Num(input_tokens.int + output_tokens.int)))

\* AnthropicAdapter._convert_anthropic_to_openai
_convert_anthropic_to_openai(response) ==
    LET r == anthropic_try(response) IN
    IF r.ok THEN r.val ELSE parse_error("Anthropic", r.exc)

----------------------------------------------------------------------------
(* The bodies providers answer with, well-formed and not.                  *)

\* The dict holding those keys of opt whose value is given.
Fields(opt) == Obj([k \in {key \in DOMAIN opt : opt[key] # None} |-> Get(opt[k])])

Hi == <<"Hi">>
There == <<SP, "there">>

part(text) == Obj([text |-> Str(text)])
candidate(parts) == Obj([content |-> Obj([parts |-> List(parts), role |-> Word("model")])])

\* Values of "candidates" as the Gemini API documents them, down to a
\* candidate without content, without parts, and a part without text.
GeminiCandidates ==
    { List(<<>>),
      List(<<candidate(<<part(Hi)>>)>>),
      List(<<candidate(<<part(Hi), part(There)>>)>>),
      List(<<candidate(<<part(There)>>), candidate(<<part(Hi)>>)>>),
      List(<<candidate(<<>>)>>),
      List(<<Obj(NoFields)>>),
      List(<<candidate(<<Obj(NoFields)>>)>>) }

\* Values of "candidates" of an unexpected type at some level.
GeminiCandidatesMalformed ==
    { Num(42),
      List(<<Word("x")>>),
      List(<<Obj([content |-> Null])>>),
      List(<<Obj([content |-> Obj([parts |-> Num(1)])])>>),
      List(<<candidate(<<Word("x")>>)>>) }

GeminiUsage ==
    { Obj([promptTokenCount |-> Num(3), candidatesTokenCount |-> Num(2),
           totalTokenCount |-> Num(5)]),
      Obj([promptTokenCount |-> Num(3)]) }

GeminiUsageMalformed == { Null }

Optional(S) == {None} \cup {Some(x) : x \in S}

GeminiWellFormed ==
    {Fields([candidates |-> c, usageMetadata |-> u]) :
        c \in Optional(GeminiCandidates), u \in Optional(GeminiUsage)}

GeminiMalformed ==
    {Fields([candidates |-> c, usageMetadata |-> u]) :
        c \in {Some(x) : x \in GeminiCandidatesMalformed},
        u \in Optional(GeminiUsage \cup GeminiUsageMalformed)}
    \cup {Fields([candidates |-> c, usageMetadata |-> u]) :
            c \in Optional(GeminiCandidates), u \in {Some(x) : x \in GeminiUsageMalformed}}
    \cup {List(<<>>), Null}

text_block(text) == Obj([type |-> Word("text"), text |-> Str(text)])
tool_use_block == Obj([type |-> Word("tool_use"), name |-> Word("list_pods")])

\* Values of "content" as the Anthropic API documents them, down to a text
\* block without text.
AnthropicContent ==
    { List(<<>>),
      List(<<text_block(Hi)>>),
      List(<<text_block(Hi), tool_use_block, text_block(There)>>),
      List(<<tool_use_block>>),
      List(<<text_block(<<>>)>>),
      List(<<Obj([type |-> Word("text")])>>) }

AnthropicContentMalformed ==
    { Null,
      Str(Hi),
      List(<<Word("x")>>),
      List(<<Obj([type |-> Word("text"), text |-> Num(1)])>>) }

AnthropicStopReasons == { Word("end_turn"), Word("max_tokens") }

AnthropicUsage ==
    { Obj([input_tokens |-> Num(3), output_tokens |-> Num(2)]),
      Obj([input_tokens |-> Num(3)]) }

AnthropicUsageMalformed == { Null, Obj([input_tokens |-> Null]) }

AnthropicWellFormed ==
    {Fields([content |-> c, stop_reason |-> s, usage |-> u]) :
        c \in Optional(AnthropicContent), s \in Optional(AnthropicStopReasons),
        u \in Optional(AnthropicUsage)}

AnthropicMalformed ==
    {Fields([content |-> c, stop_reason |-> s, usage |-> u]) :
        c \in {Some(x) : x \in AnthropicContentMalformed},
        s \in Optional(AnthropicStopReasons),
        u \in Optional(AnthropicUsage)}
    \cup {Fields([content |-> c, stop_reason |-> s, usage |-> u]) :
            c \in Optional(AnthropicContent), s \in Optional(AnthropicStopReasons),
            u \in {Some(x) : x \in AnthropicUsageMalformed}}
    \cup {List(<<>>), Null}

\* Chat-completion bodies of the OpenAI-compatible providers.
OpenAIWellFormed ==
    { canonical(Str(Hi), Word("stop"), Num(3), Num(1), Num(4)),
      canonical(Str(Hi \o There), Word("length"), Num(3), Num(2), Num(5)) }

OpenAIMalformed ==
    { Obj([error |-> Obj([message |-> Str(Join(<<"model", "overloaded">>))])]),
      Obj([choices |-> List(<<>>)]),
      Obj([choices |-> Num(1)]),
      Obj(NoFields),
      List(<<>>),
      Null }

\* The replies to a POST: 200 with a JSON body, or 500 with a text.
Replies(bodies) ==
    {[status |-> 200, body |-> b] : b \in bodies}
    \cup {[status |-> 500, body |-> Str(Join(<<"Internal", "Server", "Error">>))]}

WireMessages ==
    { [role |-> "system", content |-> Join(<<"be", "brief">>)],
      [role |-> "system", content |-> Join(<<"use", "yaml">>)],
      [role |-> "system", content |-> <<>>],
      [role |-> "user", content |-> Join(<<"list", "pods">>)],
      [role |-> "assistant", content |-> Join(<<"ok">>)] }

WireMessageLists == UNION {[1..n -> WireMessages] : n \in 0..MaxMsgs}

----------------------------------------------------------------------------
(* call_raw of the six adapters.                                           *)

\* A call of call_raw about to be made: the adapter's provider, the messages
\* and the reply the provider will give to the POST.
RawCall(provider, messages, reply) ==
    [pc |-> "call", provider |-> provider, messages |-> messages, reply |-> reply]

\* The call is over: what was sent and what call_raw returned or raised.
sent(call, payload, returned) ==
    Some([pc |-> "done", provider |-> call.provider, messages |-> call.messages,
          reply |-> call.reply, payload |-> payload, returned |-> returned])

calling(provider) ==
    /\ wire # None
    /\ Get(wire).pc = "call"
    /\ Get(wire).provider = provider

\* OpenAIAdapter.call_raw: the body is returned as it came.
OpenAIAdapter_call_raw ==
    /\ calling("openai")
    /\ LET call == Get(wire) IN
       wire' = sent(call, _prepare_payload(configured("openai"), call.messages),
                    _make_request(call.reply))
    /\ UNCHANGED <<chat_vars, env, tool_vars, extract_vars, simple, extracted, query_vars>>

\* GroqAdapter.call_raw: the body is returned as it came.
GroqAdapter_call_raw ==
    /\ calling("groq")
    /\ LET call == Get(wire) IN
       wire' = sent(call, _prepare_payload(configured("groq"), call.messages),
                    _make_request(call.reply))
    /\ UNCHANGED <<chat_vars, env, tool_vars, extract_vars, simple, extracted, query_vars>>

\* MistralAdapter.call_raw: the body is returned as it came.
MistralAdapter_call_raw ==
    /\ calling("mistral")
    /\ LET call == Get(wire) IN
       wire' = sent(call, _prepare_payload(configured("mistral"), call.messages),
                    _make_request(call.reply))
    /\ UNCHANGED <<chat_vars, env, tool_vars, extract_vars, simple, extracted, query_vars>>

\* OpenRouterAdapter.call_raw: the body is returned as it came.
OpenRouterAdapter_call_raw ==
    /\ calling("openrouter")
    /\ LET call == Get(wire) IN
       wire' = sent(call, _prepare_payload(configured("openrouter"), call.messages),
                    _make_request(call.reply))
    /\ UNCHANGED <<chat_vars, env, tool_vars, extract_vars, simple, extracted, query_vars>>

\* GeminiAdapter.call_raw: the body is translated.
GeminiAdapter_call_raw ==
    /\ calling("gemini")
    /\ LET call == Get(wire)
           response == _make_request(call.reply)
       IN wire' = sent(call, _prepare_gemini_payload(configured("gemini"), call.messages),
                       IF response.ok THEN Ok(_convert_gemini_to_openai(response.val))
                       ELSE response)
    /\ UNCHANGED <<chat_vars, env, tool_vars, extract_vars, simple, extracted, query_vars>>

\* AnthropicAdapter.call_raw: the body is translated.
AnthropicAdapter_call_raw ==
    /\ calling("anthropic")
    /\ LET call == Get(wire)
           response == _make_request(call.reply)
       IN wire' = sent(call, _prepare_anthropic_payload(configured("anthropic"),
                                                        call.messages),
                       IF response.ok THEN Ok(_convert_anthropic_to_openai(response.val))
                       ELSE response)
    /\ UNCHANGED <<chat_vars, env, tool_vars, extract_vars, simple, extracted, query_vars>>

OpenAIReplies == Replies(OpenAIWellFormed \cup OpenAIMalformed)
GeminiReplies == Replies(GeminiWellFormed \cup GeminiMalformed)
AnthropicReplies == Replies(AnthropicWellFormed \cup AnthropicMalformed)

OpenAICompatible == {"openai", "groq", "mistral", "openrouter"}

RawCalls ==
    {RawCall(p, m, reply) : p \in OpenAICompatible, m \in WireMessageLists,
                            reply \in OpenAIReplies}
    \cup {RawCall("gemini", m, reply) : m \in WireMessageLists, reply \in GeminiReplies}
    \cup {RawCall("anthropic", m, reply) : m \in WireMessageLists,
                                           reply \in AnthropicReplies}

InitAdapters ==
    /\ IdleChat /\ IdleTools /\ IdleExtract /\ IdleQueries
    /\ wire \in {Some(c) : c \in RawCalls}
    /\ simple = None /\ extracted = None

NextAdapters ==
    \/ OpenAIAdapter_call_raw
    \/ GroqAdapter_call_raw
    \/ MistralAdapter_call_raw
    \/ OpenRouterAdapter_call_raw
    \/ GeminiAdapter_call_raw
    \/ AnthropicAdapter_call_raw

SpecAdapters == InitAdapters /\ [][NextAdapters]_vars

----------------------------------------------------------------------------
(* extract_content_from_llm_response: app/response_utils.py.  Each of its  *)
(* five blocks returns a value, falls through to the next block, or raises *)
(* into the except that ends the try.                                      *)

Return(v) == [k |-> "return", val |-> v]
Pass == [k |-> "pass"]
Raised == [k |-> "raise"]

\* str(x): a string, the rendering of x.
str_of(x) == [t |-> "str", repr |-> x]

\* OpenAI / Groq / Mistral / OpenRouter format, lines 101-106.
openai_path(response) ==
    LET choices == get(response, "choices", List(<<>>)) IN
    IF ~Truthy(choices) THEN Pass
    ELSE IF choices.t # "list" THEN Raised
    ELSE IF ~has_get(first_of(choices)) THEN Raised
    ELSE
    LET message == get(first_of(choices), "message", Obj(NoFields)) IN
    IF ~has_get(message) THEN Raised
    ELSE
    LET content == get(message, "content", Null) IN
    IF Truthy(content) THEN Return(content) ELSE Pass

\* text_content of lines 111-114: block.get("text", "") of every block that
\* is a dict of type "text".
RECURSIVE text_content_of(_)
text_content_of(blocks) ==
    IF Len(blocks) = 0 THEN <<>>
    ELSE (IF blocks[1].t = "dict" /\ get(blocks[1], "type", Null) = Word("text")
          THEN <<get(blocks[1], "text", Str(<<>>))>>
          ELSE <<>>)
         \o text_content_of(Tail(blocks))

\* "".join(text_content) for strings.
RECURSIVE join_all(_)
join_all(strs) == IF Len(strs) = 0 THEN <<>> ELSE strs[1].str \o join_all(Tail(strs))

\* Anthropic format (new API), lines 109-116; join raises on a non-string.
anthropic_path(response) ==
    LET anthropic_content_list == get(response, "content", List(<<>>)) IN
    IF anthropic_content_list.t = "list" /\ Len(anthropic_content_list.list) > 0
    THEN LET text_content == text_content_of(anthropic_content_list.list) IN
         IF Len(text_content) = 0 THEN Pass
         ELSE IF \E i \in DOMAIN text_content : text_content[i].t # "str" THEN Raised
         ELSE Return(Str(join_all(text_content)))
    ELSE Pass

\* Anthropic format (legacy API), lines 119-121.
completion_path(response) ==
    LET completion == get(response, "completion", Null) IN
    IF Truthy(completion) THEN Return(completion) ELSE Pass

\* `xs and len(xs) > 0` followed by xs[0], for a true xs: the first member of
\* a list, the first character of a string; a number has no len() and a dict
\* no key 0.
first_member(xs) ==
    CASE xs.t = "list" -> Return(first_of(xs))
      [] xs.t = "str" -> Return(Str(<<xs.str[1]>>))
      [] OTHER -> Raised

\* Gemini format, lines 124-136.
gemini_path(response) ==
    LET candidates == get(response, "candidates", List(<<>>)) IN
    IF ~Truthy(candidates) THEN Pass
    ELSE IF first_member(candidates).k = "raise" THEN Raised
    ELSE
    LET candidate0 == first_member(candidates).val IN
    IF candidate0.t # "dict" THEN Pass
    ELSE
    LET content_data == get(candidate0, "content", Obj(NoFields)) IN
    IF content_data.t # "dict" THEN Pass
    ELSE
    LET parts == get(content_data, "parts", List(<<>>)) IN
    IF ~Truthy(parts) THEN Pass
    ELSE IF first_member(parts).k = "raise" THEN Raised
    ELSE
    LET part1 == first_member(parts).val IN
    IF part1.t # "dict" THEN Pass
    ELSE
    LET text == get(part1, "text", Null) IN
    IF Truthy(text) THEN Return(text) ELSE Pass

\* Direct content key, lines 139-141.
direct_path(response) ==
    LET direct_content == get(response, "content", Null) IN
    IF direct_content.t = "str" THEN Return(direct_content) ELSE Pass

\* The blocks in the order of the try: the first that does not fall through
\* decides.
RECURSIVE first_decided(_)
first_decided(outcomes) ==
    IF Len(outcomes) = 0 THEN Pass
    ELSE IF outcomes[1].k # "pass" THEN outcomes[1]
    ELSE first_decided(Tail(outcomes))

\* Lines 99-145: the try; response.get on a value that is no dict raises.
extract_try(response) ==
    IF ~has_get(response) THEN Raised
    ELSE first_decided(<<openai_path(response), anthropic_path(response),
                         completion_path(response), gemini_path(response),
                         direct_path(response)>>)

\* extract_content_from_llm_response
extract_content_from_llm_response(response) ==
    LET r == extract_try(response) IN
    IF r.k = "return" THEN r.val ELSE str_of(response)

choice(content) == Obj([index |-> Num(0), message |-> Obj([role |-> Word("assistant"),
                                                           content |-> content])])

Legacy == <<"Legacy">>

\* The values of each key of a response handed to the function: as the
\* providers document them, empty, and of another type.
ChoicesValues ==
    { List(<<>>), List(<<choice(Str(Hi))>>), List(<<choice(Str(<<>>))>>),
      List(<<choice(Num(42))>>), List(<<choice(Null)>>), List(<<Word("x")>>), Num(1) }

ContentValues ==
    { Str(There), Str(<<>>), List(<<>>),
      List(<<text_block(Hi), tool_use_block, text_block(There)>>),
      List(<<tool_use_block>>),
      List(<<Obj([type |-> Word("text"), text |-> Num(1)])>>),
      List(<<Word("x")>>), Null }

CompletionValues == { Str(Legacy), Str(<<>>), Num(7) }

CandidatesValues ==
    { List(<<>>), List(<<candidate(<<part(Hi), part(There)>>)>>), List(<<candidate(<<>>)>>),
      List(<<candidate(<<Obj([text |-> Num(5)])>>)>>), List(<<Word("x")>>), Num(42) }

Responses ==
    {Fields([choices |-> ch, content |-> co, completion |-> cm, candidates |-> ca]) :
        ch \in Optional(ChoicesValues), co \in Optional(ContentValues),
        cm \in Optional(CompletionValues), ca \in Optional(CandidatesValues)}
    \cup {List(<<>>), Null, Str(Hi)}

\* The function is applied to the response it was handed.
extract_content ==
    /\ extracted # None
    /\ Get(extracted).pc = "call"
    /\ extracted' = Some([pc |-> "done",
                          response |-> Get(extracted).response,
                          returned |-> Ok(extract_content_from_llm_response(
                                              Get(extracted).response))])
    /\ UNCHANGED <<chat_vars, env, tool_vars, extract_vars, simple, wire, query_vars>>

InitNormalizer ==
    /\ IdleChat /\ IdleTools /\ IdleExtract /\ IdleQueries
    /\ extracted \in {Some([pc |-> "call", response |-> r]) : r \in Responses}
    /\ simple = None /\ wire = None

NextNormalizer == extract_content

SpecNormalizer == InitNormalizer /\ [][NextNormalizer]_vars

----------------------------------------------------------------------------
(* calculate_usage_stats: app/response_utils.py.  The floats it computes   *)
(* are multiples of 0.1 and are written in tenths: 13 is 1.3.              *)

\* " ".join(texts)
RECURSIVE join_space(_)
join_space(texts) ==
    IF Len(texts) = 0 THEN <<>>
    ELSE IF Len(texts) = 1 THEN texts[1]
    ELSE texts[1] \o <<SP>> \o join_space(Tail(texts))

\* len(text.split()) * 1.3, in tenths.
rough_tokens(text) == count_tokens(text) * 13

\* max(1, x) for x in tenths.
max_1(x) == IF x > 10 THEN x ELSE 10

\* int(x) for x >= 0 in tenths.
int(x) == x \div 10

\* int(prompt_tokens + completion_tokens): the floats are added, then truncated.
total_of(prompt_tokens, completion_tokens) == int(prompt_tokens + completion_tokens)

calculate_usage_stats(request_messages, response_content) ==
    LET prompt_text == join_space([i \in 1..Len(request_messages) |->
                                      request_messages[i].content])
        prompt_tokens == max_1(rough_tokens(prompt_text))
        completion_tokens == max_1(rough_tokens(response_content))
    IN [prompt_tokens |-> int(prompt_tokens),
        completion_tokens |-> int(completion_tokens),
        total_tokens |-> total_of(prompt_tokens, completion_tokens)]

\* Contents of none, one, two, three and five words, and of whitespace only.
UsageTexts ==
    { <<>>, <<SP>>, Join(<<"pods">>), Join(<<"list", "pods">>),
      <<SP>> \o Join(<<"scale", "web", "up">>) \o <<SP, SP>>,
      Join(<<"list", "the", "pods", "of", "default">>) }

UsageMessages == {[role |-> "user", content |-> c] : c \in UsageTexts}
UsageMessageLists == UNION {[1..n -> UsageMessages] : n \in 0..MaxMsgs}

\* A computation about to be made: by calculate_usage_stats or by
\* convert_to_openai_format, over the request's messages and the response's
\* content.
UsageCalls ==
    {[pc |-> "call", fn |-> fn, request_messages |-> ms, content |-> c] :
        fn \in {"calculate_usage_stats", "convert_to_openai_format"},
        ms \in UsageMessageLists, c \in UsageTexts}

usage_calling(fn) ==
    /\ usage_call # None
    /\ Get(usage_call).pc = "call"
    /\ Get(usage_call).fn = fn

usage_done(call, returned) ==
    Some([pc |-> "done", fn |-> call.fn, request_messages |-> call.request_messages,
          content |-> call.content, returned |-> returned])

call_calculate_usage_stats ==
    /\ usage_calling("calculate_usage_stats")
    /\ LET call == Get(usage_call) IN
       usage_call' = usage_done(call, calculate_usage_stats(call.request_messages,
                                                            call.content))
    /\ UNCHANGED <<chat_vars, env, tool_vars, extract_vars, adapter_vars,
                   config_call, lookup>>

UsageSession == "0f3c"
UsageModel == "gpt-4"

call_convert_to_openai_format ==
    /\ usage_calling("convert_to_openai_format")
    /\ LET call == Get(usage_call) IN
       usage_call' = usage_done(call, convert_to_openai_format(
                                          UsageSession, UsageModel,
                                          [content |-> call.content, tools_used |-> <<>>],
                                          call.request_messages))
    /\ UNCHANGED <<chat_vars, env, tool_vars, extract_vars, adapter_vars,
                   config_call, lookup>>

InitUsage ==
    /\ IdleChat /\ IdleTools /\ IdleExtract /\ IdleAdapters
    /\ usage_call \in {Some(c) : c \in UsageCalls}
    /\ config_call = None /\ lookup = None

NextUsage ==
    \/ call_calculate_usage_stats
    \/ call_convert_to_openai_format

SpecUsage == InitUsage /\ [][NextUsage]_vars

----------------------------------------------------------------------------
(* The configuration endpoint: app/main.py, app/llm_config.py.              *)

\* llm_config.save_llm_config on a table: the table after the insert, or the
\* ValueError of the validation that failed.
saved_llm_config(table, user_id, config) ==
    IF ~validate_provider_model(config.provider, config.model)
    THEN Raise([type |-> "ValueError",
                text |-> Join(<<"Unsupported", "provider/model", "combination">>)])
    ELSE IF ~(0 <= config.temperature /\ config.temperature <= 20)
    THEN Raise([type |-> "ValueError",
                text |-> Join(<<"Temperature", "must", "be", "between", "0.0", "and", "2.0">>)])
    ELSE Ok(db_save_llm_config(table, user_id, config.provider, config.model,
                               config.api_key, config.temperature))

\* LLMConfigCreate: temperature is declared with ge=0.0, le=2.0, so a body
\* outside the range does not reach the handler.
LLMConfigCreate_valid(config) == 0 <= config.temperature /\ config.temperature <= 20

\* The bodies clients post: those of ConfigInputs, one at each end of the
\* temperature range and one below it.
ConfigBodies ==
    ConfigInputs \cup
    { [provider |-> "anthropic", model |-> "claude-3-opus", api_key |-> "sk-c",
       temperature |-> 0],
      [provider |-> "gemini", model |-> "gemini-pro", api_key |-> "sk-b",
       temperature |-> 0 - 1] }

config_answer(op, user_id, config, status) ==
    Some([op |-> op, user_id |-> user_id, config |-> config, status |-> status])

\* POST /config: 422 for a body the model rejects, 400 when save_llm_config
\* raises, 200 after the row is written.
configure_llm(user_id, config) ==
    LET result == saved_llm_config(llm_configs, user_id, config) IN
    /\ llm_configs' = IF LLMConfigCreate_valid(config) /\ result.ok
                      THEN result.val ELSE llm_configs
    /\ config_call' = config_answer("configure_llm", user_id, config,
                                    IF ~LLMConfigCreate_valid(config) THEN 422
                                    ELSE IF result.ok THEN 200 ELSE 400)
    /\ UNCHANGED <<sessions, req, env, tool_vars, extract_vars, adapter_vars,
                   usage_call, lookup>>

\* update_llm_config: the same save; what is kept is whether it returned
\* (200) or raised (400).
update_llm_config(user_id, config) ==
    LET result == saved_llm_config(llm_configs, user_id, config) IN
    /\ llm_configs' = IF result.ok THEN result.val ELSE llm_configs
    /\ config_call' = config_answer("update_llm_config", user_id, config,
                                    IF result.ok THEN 200 ELSE 400)
    /\ UNCHANGED <<sessions, req, env, tool_vars, extract_vars, adapter_vars,
                   usage_call, lookup>>

InitConfig == IdleChat /\ IdleTools /\ IdleExtract /\ IdleAdapters /\ IdleQueries

NextConfig ==
    \/ \E u \in Users, c \in ConfigBodies : configure_llm(u, c)
    \/ \E u \in Users, c \in ConfigBodies : update_llm_config(u, c)

SpecConfig == InitConfig /\ [][NextConfig]_vars

----------------------------------------------------------------------------
(* Two requests in flight at once, by the same user or by two users, over  *)
(* an LLM that answers without asking for a tool.                          *)

InitConcurrent ==
    /\ env = [reqs |-> {1, 2}, tools |-> {}, msgs |-> {<<UserMsg>>},
              models |-> ModelOverrides, temperatures |-> TemperatureOverrides]
    /\ InitTables /\ InitFrames /\ IdleTools /\ IdleExtract /\ IdleAdapters /\ IdleQueries

NextConcurrent ==
    \/ \E u \in Users, c \in ConfigInputs : save_llm_config(u, c)
    \/ \E r \in DOMAIN req, u \in Users, q \in Requests : chat_begin(r, u, q)
    \/ \E r \in DOMAIN req, installed \in BOOLEAN : chat_prepare(r, installed)
    \/ \E r \in DOMAIN req : agent_finish(r)
    \/ \E r \in DOMAIN req : agent_llm_fails(r)
    \/ \E r \in DOMAIN req : chat_save_session(r)
    \/ \E r \in DOMAIN req : chat_save_session_fails(r)

SpecConcurrent == InitConcurrent /\ [][NextConcurrent]_vars

----------------------------------------------------------------------------
(* The session endpoints: app/main.py, app/database.py.                    *)

\* The row, its JSON columns parsed.
parsed(row) ==
    [session_id |-> row.session_id, user_id |-> row.user_id,
     messages |-> json_loads(row.messages),
     response |-> json_loads(row.response),
     tools_used |-> json_loads(row.tools_used)]

\* A query by session id alone.
get_session_by_id_of_anyone(table, user_id, session_id) ==
    LET rows == {row \in table : row.session_id = session_id} IN
    IF rows = {} THEN None ELSE Some(parsed(CHOOSE row \in rows : TRUE))

\* DatabaseManager.get_session_by_id: SELECT * FROM sessions WHERE user_id = ?
\* AND session_id = ?, fetch_one.
get_session_by_id(table, user_id, session_id) ==
    LET rows == {row \in table : row.user_id = user_id /\ row.session_id = session_id} IN
    IF rows = {} THEN None ELSE Some(parsed(CHOOSE row \in rows : TRUE))

\* DatabaseManager.get_user_sessions: SELECT session_id, timestamp FROM
\* sessions WHERE user_id = ?; the session ids listed.
get_user_sessions(table, user_id) ==
    {row.session_id : row \in {row \in table : row.user_id = user_id}}

\* The session ids clients ask for: those given to the requests, and one
\* that was given to none.
SessionIdsAsked == DOMAIN req \cup {0}

\* GET /sessions/{session_id}: the session, or 404.
get_session(user_id, session_id) ==
    /\ LET session == get_session_by_id(sessions, user_id, session_id) IN
       lookup' = Some([op |-> "get_session", user_id |-> user_id,
                       session_id |-> Some(session_id),
                       status |-> IF session = None THEN 404 ELSE 200,
                       body |-> session])
    /\ UNCHANGED <<chat_vars, env, tool_vars, extract_vars, adapter_vars,
                   usage_call, config_call>>

\* GET /sessions
list_sessions(user_id) ==
    /\ lookup' = Some([op |-> "list_sessions", user_id |-> user_id,
                       session_id |-> None, status |-> 200,
                       body |-> Some(get_user_sessions(sessions, user_id))])
    /\ UNCHANGED <<chat_vars, env, tool_vars, extract_vars, adapter_vars,
                   usage_call, config_call>>

\* Two requests, by the same user or by two users, without overrides, and
\* the session endpoints called at any moment.
InitSessions ==
    /\ env = [reqs |-> {1, 2}, tools |-> {}, msgs |-> {<<UserMsg>>},
              models |-> {None}, temperatures |-> {None}]
    /\ InitTables /\ InitFrames /\ IdleTools /\ IdleExtract /\ IdleAdapters /\ IdleQueries

NextSessions ==
    \/ \E u \in Users, c \in ConfigInputs : save_llm_config(u, c)
    \/ \E r \in DOMAIN req, u \in Users, q \in Requests : chat_begin(r, u, q)
    \/ \E r \in DOMAIN req, installed \in BOOLEAN : chat_prepare(r, installed)
    \/ \E r \in DOMAIN req : agent_finish(r)
    \/ \E r \in DOMAIN req : chat_save_session(r)
    \/ \E u \in Users, sid \in SessionIdsAsked : get_session(u, sid)
    \/ \E u \in Users : list_sessions(u)

SpecSessions == InitSessions /\ [][NextSessions]_vars

----------------------------------------------------------------------------
(* Properties.                                                             *)

Frames == {req[r] : r \in DOMAIN req}

\* The tool names of a list of (action, observation) steps.
ExecutedTools(f) ==
    {Get(f.run).intermediate_steps[i][1].tool : i \in DOMAIN Get(f.run).intermediate_steps}

\* C1: an agent loop whose model asks for a tool in every round stops after
\* exactly 5 reasoning rounds: no run ever makes a sixth LLM call, a run that
\* has executed 5 tool rounds is over, and process_messages has then returned
\* an AgentResponse holding the executor's stopped output.
IterationCap ==
    \A f \in Frames :
        f.run # None =>
            LET run == Get(f.run) IN
            /\ run.llm_calls <= 5
            /\ run.iterations <= 5
            /\ (run.iterations = 5 /\ run.llm_calls = Len(run.intermediate_steps)) =>
                    /\ f.turn = "capped"
                    /\ f.pc \notin {"reasoning", "tool"}
            /\ f.turn = "capped" =>
                    /\ run.llm_calls = 5
                    /\ Len(run.intermediate_steps) = 5
                    /\ f.agent_response # None
                    /\ Get(f.agent_response).content = StoppedOutput

IterationCapReached ==
    \E f \in Frames : f.turn = "capped" /\ f.pc = "returned"

\* C2: when a call of process_chat_request that configured an adapter has
\* ended (returned or raised), the client configure opened is closed.
ClientClosedAtExit ==
    \A f \in Frames :
        (f.pc \in {"returned", "raised"} /\ f.adapter # None) =>
            Get(f.adapter).client = "closed"

\* C3: process_chat_request raises only for a missing provider configuration
\* or an empty message list.
OnlyConfigAndInputErrorsSurface ==
    \A f \in Frames :
        f.pc = "raised" => Get(f.error) \in {NoConfigurationError, EmptyMessagesError}

ErrorExplained == <<"I", SP, "encountered", SP, "an", SP, "error">>

\* C4: once process_messages is running on a non-empty message list, a
\* failing LLM call or a tool exception in any round ends in an AgentResponse
\* whose content starts with the error explanation and whose tools_used is
\* empty, and the failure is not what the frame raises.
AgentAbsorbsFailures ==
    \A f \in Frames :
        f.turn = "failed" =>
            /\ f.agent_response # None
            /\ LET ar == Get(f.agent_response) IN
               /\ Len(ar.content) > Len(ErrorExplained)
               /\ SubSeq(ar.content, 1, Len(ErrorExplained)) = ErrorExplained
               /\ ar.tools_used = <<>>
            /\ f.pc \in {"saving", "returned", "raised"}
            /\ f.pc = "raised" => Get(f.error).type = "OperationalError"

AgentFailedAfterTools ==
    \E f \in Frames :
        /\ f.turn = "failed"
        /\ f.pc = "returned"
        /\ Len(Get(f.run).intermediate_steps) >= 2

\* C5: the envelope of a failed turn has finish_reason "error" and that of a
\* successful turn has finish_reason "stop".
FailureSignalledByFinishReason ==
    \A f \in Frames :
        f.response # None =>
            Get(f.response).choices[1].finish_reason =
                (IF f.turn = "failed" THEN "error" ELSE "stop")

\* C6: after a run of the loop that ends without exception, the names in
\* tools_used are exactly the names of the tools executed during the loop.
ToolsUsedAreToolsExecuted ==
    \A f \in Frames :
        f.turn \in {"finished", "capped"} =>
            Range(Get(f.agent_response).tools_used) = ExecutedTools(f)

\* The tool names an executor result's steps hold.
StepNames(result) ==
    IF "intermediate_steps" \in DOMAIN result
    THEN {result.intermediate_steps[i][1].tool :
            i \in {k \in DOMAIN result.intermediate_steps :
                        Len(result.intermediate_steps[k]) >= 2}}
    ELSE {}

\* C7: the list _extract_tools_used returns has no duplicates: every tool
\* name of the steps is in it exactly once, however many steps name it.
NoDuplicateTools ==
    tools_out # None =>
        LET out == Get(tools_out) IN
        /\ \A i, j \in DOMAIN out : i # j => out[i] # out[j]
        /\ \A t \in StepNames(Get(steps_in)) :
                Cardinality({i \in DOMAIN out : out[i] = t}) = 1

ToolNamedInTwoSteps ==
    /\ tools_out # None
    /\ "intermediate_steps" \in DOMAIN Get(steps_in)
    /\ LET steps == Get(steps_in).intermediate_steps IN
       /\ Len(steps) = 3
       /\ \A i \in DOMAIN steps : Len(steps[i]) >= 2
       /\ steps[1][1].tool = steps[3][1].tool
       /\ steps[1][1].tool # steps[2][1].tool
    /\ Len(Get(tools_out)) = 2

\* One invocation seen as a step: what it adds to the calls on the cluster.
GateStep ==
    LET t == Get(tool_result') IN
    /\ tool_result' # None
    /\ t.tool \in DeleteTools
    /\ flag(t.flag) = FALSE => (api_calls' = api_calls /\ t.ret.ok)
    /\ flag(t.flag) = TRUE =>
            api_calls' = Append(api_calls, [api |-> DeleteCall[t.tool], name |-> t.name,
                                            namespace |-> t.ns])

\* C8: a delete tool invoked with the confirmation flag left out or false
\* calls nothing on the cluster API and returns normally; invoked with the
\* flag true it makes exactly one call, the delete of the named resource.
ConfirmationGate == [][GateStep]_vars

UnconfirmedAfterConfirmed ==
    /\ tool_result # None
    /\ Get(tool_result).flag = None
    /\ Get(tool_result).tool = "del_pvc"
    /\ Len(api_calls) = 1
    /\ api_calls[1].api = DeleteCall["del_ns"]

\* C9: every delete tool invoked without the confirmation flag returns a
\* structured result whose status is "confirm_required".
ConfirmRequiredShape ==
    tool_result # None =>
        LET t == Get(tool_result) IN
        flag(t.flag) = FALSE =>
            /\ t.ret.ok
            /\ t.ret.val.kind = "dict"
            /\ t.ret.val.body.status = "confirm_required"

\* C10: a request whose adapter has no usable LangChain binding is handled
\* by a fallback agent and does not fail: a frame that configured its
\* adapter has an agent once preparation is over.
FallbackAgentOnMissingBinding ==
    \A f \in Frames :
        (f.adapter # None /\ f.pc \notin {"idle", "config"}) => f.agent # None

\* SimpleAgent.process_messages has returned and the envelope is built.
SimpleDone == simple # None /\ Get(simple).pc = "done"

\* The keywords of keyword_map that occur in the latest message of a call.
KeywordHits(messages) ==
    LET user_input == IF Len(messages) > 0 THEN messages[Len(messages)].content ELSE <<>>
    IN {i \in DOMAIN keyword_map : contains(lower(user_input), keyword_map[i].keyword)}

\* C11: in keyword-fallback mode, when the latest message contains a keyword
\* of the table (in any letter case) tools_used is exactly the one-element
\* list holding the mapped tool's name; at most one tool is selected, and
\* when no keyword occurs tools_used is empty.
KeywordSelectsMappedTool ==
    SimpleDone =>
        LET s == Get(simple)
            hits == KeywordHits(s.messages)
        IN /\ Len(s.agent_response.tools_used) <= 1
           /\ hits = {} => s.agent_response.tools_used = <<>>
           /\ hits # {} =>
                \E i \in hits : s.agent_response.tools_used = <<keyword_map[i].tool_name>>

\* The content of the single choice of a canonical response.
ChoiceContent(response) == response.dict.choices.list[1].dict.message.dict.content

\* C12: with N >= 1 non-empty messages and a mock adapter whose call_raw
\* returns the content C in the canonical choices shape, the response has a
\* single choice whose content is C, and prompt_tokens >= 1 and
\* completion_tokens >= 1 when C is not empty.
MockRoundTrip ==
    SimpleDone =>
        LET s == Get(simple) IN
        (/\ s.adapter = "mock"
         /\ Len(s.messages) >= 1
         /\ \A i \in DOMAIN s.messages : s.messages[i].content # <<>>) =>
            LET C == ChoiceContent(s.llm_outcome.val).str IN
            /\ Len(s.response.choices) = 1
            /\ s.response.choices[1].message.content = C
            /\ C # <<>> => /\ s.response.usage.prompt_tokens >= 1
                           /\ s.response.usage.completion_tokens >= 1

\* call_raw has returned or raised.
WireDone == wire # None /\ Get(wire).pc = "done"

\* A canonical response with exactly one choice.
OneChoice(response) ==
    /\ response.t = "dict"
    /\ "choices" \in DOMAIN response.dict
    /\ response.dict.choices.t = "list"
    /\ Len(response.dict.choices.list) = 1
    /\ response.dict.choices.list[1].t = "dict"
    /\ {"message", "finish_reason"} \subseteq DOMAIN response.dict.choices.list[1].dict

FinishReason(response) == response.dict.choices.list[1].dict.finish_reason

MalformedBodies(provider) ==
    CASE provider = "gemini" -> GeminiMalformed
      [] provider = "anthropic" -> AnthropicMalformed
      [] OTHER -> OpenAIMalformed

ErrorParsing == <<"Error", SP, "parsing">>

\* C13: for every provider, call_raw given a 2xx reply whose body has an
\* unexpected shape does not raise and returns a canonical response with
\* exactly one choice, whose finish_reason is "error" and whose content
\* describes the parsing failure.
MalformedBodyBecomesErrorResponse ==
    WireDone =>
        LET w == Get(wire) IN
        (w.reply.status = 200 /\ w.reply.body \in MalformedBodies(w.provider)) =>
            /\ w.returned.ok
            /\ OneChoice(w.returned.val)
            /\ FinishReason(w.returned.val) = Word("error")
            /\ ChoiceContent(w.returned.val).t = "str"
            /\ Len(ChoiceContent(w.returned.val).str) > Len(ErrorParsing)
            /\ SubSeq(ChoiceContent(w.returned.val).str, 1, Len(ErrorParsing)) = ErrorParsing

NotSystem(msg) == msg.role # "system"
IsSystem(msg) == msg.role = "system"

\* The content of the last system message of a list that has one.
LastSystemContent(messages) ==
    LET systems == SelectSeq(messages, IsSystem) IN systems[Len(systems)].content

\* C17, as stated: the messages Anthropic is sent are the non-system
\* messages in their order, unchanged, and whenever the input has a system
\* message the payload has a system field holding the content of the last
\* one.
AnthropicSystemField ==
    (WireDone /\ Get(wire).provider = "anthropic") =>
        LET messages == Get(wire).messages
            payload == Get(wire).payload
        IN /\ payload.messages = SelectSeq(messages, NotSystem)
           /\ SelectSeq(messages, IsSystem) # <<>> =>
                /\ "system" \in DOMAIN payload
                /\ payload.system = LastSystemContent(messages)

\* C17, amended: the messages Anthropic is sent are the non-system messages
\* in their order, unchanged; the payload has a system field exactly when
\* the input has a system message and the content of the last one is not
\* empty, and the field then holds that content (earlier system messages are
\* overwritten, an empty last one leaves the payload without the field).
AnthropicSystemFieldWhenNotEmpty ==
    (WireDone /\ Get(wire).provider = "anthropic") =>
        LET messages == Get(wire).messages
            payload == Get(wire).payload
            given == /\ SelectSeq(messages, IsSystem) # <<>>
                     /\ LastSystemContent(messages) # <<>>
        IN /\ payload.messages = SelectSeq(messages, NotSystem)
           /\ \A i \in DOMAIN payload.messages : payload.messages[i].role # "system"
           /\ ("system" \in DOMAIN payload) = given
           /\ given => payload.system = LastSystemContent(messages)

TwoSystemMessagesSent ==
    /\ WireDone
    /\ Get(wire).provider = "anthropic"
    /\ Len(Get(wire).messages) = 2
    /\ IsSystem(Get(wire).messages[1])
    /\ IsSystem(Get(wire).messages[2])
    /\ Get(wire).messages[1].content # <<>>
    /\ Get(wire).messages[2].content # <<>>
    /\ Get(wire).messages[1].content # Get(wire).messages[2].content
    /\ "system" \in DOMAIN Get(wire).payload

\* The texts of the blocks of type "text", in order, one after the other.
RECURSIVE TextOfBlocks(_)
TextOfBlocks(blocks) ==
    IF Len(blocks) = 0 THEN <<>>
    ELSE (IF blocks[1].dict.type = Word("text") /\ "text" \in DOMAIN blocks[1].dict
          THEN blocks[1].dict.text.str ELSE <<>>)
         \o TextOfBlocks(Tail(blocks))

\* C18: for a well-formed Anthropic body, the content of the response is the
\* concatenation, in order, of the text of its blocks of type "text"; if
\* that is empty (an empty block list included) it is "No response
\* generated"; finish_reason is the body's stop_reason when there is one
\* and "stop" otherwise.
AnthropicTranslation ==
    (/\ WireDone
     /\ Get(wire).provider = "anthropic"
     /\ Get(wire).reply.status = 200
     /\ Get(wire).reply.body \in AnthropicWellFormed) =>
        LET body == Get(wire).reply.body.dict
            blocks == IF "content" \in DOMAIN body THEN body.content.list ELSE <<>>
            text == TextOfBlocks(blocks)
            returned == Get(wire).returned
        IN /\ returned.ok
           /\ OneChoice(returned.val)
           /\ ChoiceContent(returned.val) =
                    Str(IF text = <<>> THEN NoResponseGenerated ELSE text)
           /\ FinishReason(returned.val) =
                    (IF "stop_reason" \in DOMAIN body THEN body.stop_reason
                     ELSE Word("stop"))

AnthropicTextAroundToolUse ==
    /\ WireDone
    /\ Get(wire).provider = "anthropic"
    /\ Get(wire).reply.status = 200
    /\ Get(wire).reply.body \in AnthropicWellFormed
    /\ "content" \in DOMAIN Get(wire).reply.body.dict
    /\ Get(wire).reply.body.dict.content =
            List(<<text_block(Hi), tool_use_block, text_block(There)>>)
    /\ "stop_reason" \notin DOMAIN Get(wire).reply.body.dict
    /\ ChoiceContent(Get(wire).returned.val) = Str(Hi \o There)

\* A usage field of a Gemini body: the value under usageMetadata, 0 if absent.
UsageField(body, key) ==
    IF "usageMetadata" \in DOMAIN body /\ key \in DOMAIN body.usageMetadata.dict
    THEN body.usageMetadata.dict[key]
    ELSE Num(0)

\* The parts of the first candidate.
FirstParts(candidates) ==
    LET c == candidates[1].dict IN
    IF "content" \in DOMAIN c /\ "parts" \in DOMAIN c.content.dict
    THEN c.content.dict.parts.list
    ELSE <<>>

\* C19: for a well-formed Gemini body, the content of the response is the
\* text of the first part of the first candidate; "No response generated"
\* if there are no candidates; "No content" if the first candidate has no
\* parts; each usage field comes from usageMetadata and is 0 when absent.
GeminiTranslation ==
    (/\ WireDone
     /\ Get(wire).provider = "gemini"
     /\ Get(wire).reply.status = 200
     /\ Get(wire).reply.body \in GeminiWellFormed) =>
        LET body == Get(wire).reply.body.dict
            candidates == IF "candidates" \in DOMAIN body THEN body.candidates.list
                          ELSE <<>>
            returned == Get(wire).returned
            usage == returned.val.dict.usage.dict
        IN /\ returned.ok
           /\ OneChoice(returned.val)
           /\ ChoiceContent(returned.val) =
                (IF candidates = <<>> THEN Str(NoResponseGenerated)
                 ELSE IF FirstParts(candidates) = <<>> THEN Str(NoContent)
                 ELSE IF "text" \in DOMAIN FirstParts(candidates)[1].dict
                 THEN FirstParts(candidates)[1].dict.text
                 ELSE Str(<<>>))
           /\ usage.prompt_tokens = UsageField(body, "promptTokenCount")
           /\ usage.completion_tokens = UsageField(body, "candidatesTokenCount")
           /\ usage.total_tokens = UsageField(body, "totalTokenCount")

GeminiTwoCandidatesTranslated ==
    /\ WireDone
    /\ Get(wire).provider = "gemini"
    /\ Get(wire).reply.status = 200
    /\ Get(wire).reply.body \in GeminiWellFormed
    /\ "candidates" \in DOMAIN Get(wire).reply.body.dict
    /\ Len(Get(wire).reply.body.dict.candidates.list) = 2
    /\ "usageMetadata" \in DOMAIN Get(wire).reply.body.dict
    /\ "totalTokenCount" \notin DOMAIN Get(wire).reply.body.dict.usageMetadata.dict
    /\ ChoiceContent(Get(wire).returned.val) = Str(There)

\* C20: in every canonical response the core produces, by the response
\* translation of an adapter or by the response assembler, the
\* finish_reason of each choice is "stop" or "error".
FinishReasonStopOrError ==
    /\ \A f \in Frames :
            f.response # None =>
                \A i \in DOMAIN Get(f.response).choices :
                    Get(f.response).choices[i].finish_reason \in {"stop", "error"}
    /\ (/\ WireDone
        /\ Get(wire).provider \in {"gemini", "anthropic"}
        /\ Get(wire).returned.ok) =>
            \A i \in DOMAIN Get(wire).returned.val.dict.choices.list :
                Get(wire).returned.val.dict.choices.list[i].dict.finish_reason
                    \in {Word("stop"), Word("error")}

\* extract_content_from_llm_response has returned.
ExtractDone == extracted # None /\ Get(extracted).pc = "done"

\* C14: extract_content_from_llm_response never raises and returns a text
\* string, whatever the shape of the response: missing keys, empty lists,
\* blocks that are no dicts, content values that are no strings, a response
\* that is no dict.
ExtractContentTotal ==
    ExtractDone =>
        /\ Get(extracted).returned.ok
        /\ Get(extracted).returned.val.t = "str"

\* The value under a chain of keys and first members, None where the chain
\* breaks: a key that is missing, a value that is no dict, a list that is
\* empty or no list.
At(x, key) == IF x # None /\ Get(x).t = "dict" /\ key \in DOMAIN Get(x).dict
              THEN Some(Get(x).dict[key]) ELSE None
Head0(x) == IF x # None /\ Get(x).t = "list" /\ Len(Get(x).list) > 0
            THEN Some(Get(x).list[1]) ELSE None

\* A path succeeds with a value that is there and is not empty.
Found(x) == IF x # None /\ Truthy(Get(x)) THEN x ELSE None

\* The texts of the blocks that are dicts of type "text" and hold a string.
RECURSIVE TextBlocks(_)
TextBlocks(blocks) ==
    IF Len(blocks) = 0 THEN <<>>
    ELSE (IF /\ blocks[1].t = "dict"
             /\ At(Some(blocks[1]), "type") = Some(Word("text"))
             /\ At(Some(blocks[1]), "text") # None
             /\ Get(At(Some(blocks[1]), "text")).t = "str"
          THEN <<Get(At(Some(blocks[1]), "text"))>> ELSE <<>>)
         \o TextBlocks(Tail(blocks))

\* The five extraction paths of a response, in their order; None for a path
\* that does not succeed.
Paths(response) ==
    LET r == Some(response)
        blocks == At(r, "content")
    IN << Found(At(At(Head0(At(r, "choices")), "message"), "content")),
          IF blocks # None /\ Get(blocks).t = "list" /\ TextBlocks(Get(blocks).list) # <<>>
          THEN Some(Str(join_all(TextBlocks(Get(blocks).list)))) ELSE None,
          Found(At(r, "completion")),
          Found(At(Head0(At(At(Head0(At(r, "candidates")), "content"), "parts")), "text")),
          IF blocks # None /\ Get(blocks).t = "str" THEN blocks ELSE None >>

\* C15: the result is that of the first path that succeeds, in the order
\* choices[0].message.content, content-block list, completion,
\* candidates[0].content.parts[0].text, top-level content string; when none
\* succeeds it is the string rendering of the whole response.
ExtractContentFirstPathWins ==
    ExtractDone =>
        LET response == Get(extracted).response
            paths == Paths(response)
            won == {i \in DOMAIN paths : paths[i] # None}
        IN Get(extracted).returned =
            Ok(IF won = {} THEN str_of(response)
               ELSE Get(paths[CHOOSE i \in won : \A j \in won : i <= j]))

\* A usage computation by fn has returned.
UsageDone(fn) ==
    usage_call # None /\ Get(usage_call).pc = "done" /\ Get(usage_call).fn = fn

\* The number of whitespace-separated words of a text.
RECURSIVE Words(_, _)
Words(text, inside) ==
    IF Len(text) = 0 THEN 0
    ELSE IF text[1] = SP THEN Words(Tail(text), FALSE)
    ELSE (IF inside THEN 0 ELSE 1) + Words(Tail(text), TRUE)

\* The words times 1.3, floored, and at least 1 for a text that is not empty.
Approximation(text) ==
    LET floored == (Words(text, FALSE) * 13) \div 10 IN
    IF Len(text) > 0 /\ floored < 1 THEN 1 ELSE floored

\* The contents of the messages joined by single spaces.
RECURSIVE Joined(_)
Joined(messages) ==
    IF Len(messages) = 0 THEN <<>>
    ELSE IF Len(messages) = 1 THEN messages[1].content
    ELSE messages[1].content \o <<SP>> \o Joined(Tail(messages))

\* C21: calculate_usage_stats computes each token count as the number of
\* whitespace-separated words of the text (the request message contents
\* joined, the response content), times 1.3, floored to an integer, with a
\* minimum of 1 applied for non-empty input.
UsageIsWordCountScaled ==
    UsageDone("calculate_usage_stats") =>
        LET call == Get(usage_call) IN
        /\ call.returned.prompt_tokens = Approximation(Joined(call.request_messages))
        /\ call.returned.completion_tokens = Approximation(call.content)

\* C22: the envelope of convert_to_openai_format has exactly one choice, at
\* index 0, with finish_reason "stop" and the agent's content unchanged, and
\* its usage equals the token approximation of calculate_usage_stats applied
\* to the request message contents and to the agent's content.
EnvelopeUsageIsApproximation ==
    UsageDone("convert_to_openai_format") =>
        LET call == Get(usage_call) IN
        /\ Len(call.returned.choices) = 1
        /\ call.returned.choices[1].index = 0
        /\ call.returned.choices[1].finish_reason = "stop"
        /\ call.returned.choices[1].message.content = call.content
        /\ call.returned.usage = calculate_usage_stats(call.request_messages, call.content)

\* The usage record of a finished computation.
UsageRecordOf(call) ==
    IF call.fn = "convert_to_openai_format" THEN call.returned.usage ELSE call.returned

\* C29: in every usage record computed (by calculate_usage_stats, by
\* convert_to_openai_format), total_tokens = prompt_tokens + completion_tokens.
TotalIsSumOfParts ==
    (usage_call # None /\ Get(usage_call).pc = "done") =>
        LET u == UsageRecordOf(Get(usage_call)) IN
        u.total_tokens = u.prompt_tokens + u.completion_tokens

\* C23: when the user has no stored provider configuration, or the request's
\* message list is empty, process_chat_request fails with an error before
\* the core is invoked: no adapter is configured (no network client opened),
\* no provider or tool call is made, and no session is recorded.
RejectedBeforeCore ==
    \A r \in DOMAIN req :
        LET f == req[r] IN
        (/\ f.pc \notin {"idle", "config"}
         /\ (f.llm_config = None \/ Len(Get(f.request).messages) = 0))
        => /\ f.pc = "raised"
           /\ f.error = (IF f.llm_config = None THEN Some(NoConfigurationError)
                         ELSE Some(EmptyMessagesError))
           /\ f.adapter = None
           /\ f.agent = None
           /\ f.run = None
           /\ \A row \in sessions : row.session_id # r

\* A request without messages, by a user with a stored configuration, has
\* been rejected.
EmptyRequestOfConfiguredUserRejected ==
    \E r \in DOMAIN req :
        /\ req[r].pc = "raised"
        /\ req[r].llm_config # None
        /\ Len(Get(req[r].request).messages) = 0
        /\ rows_of(llm_configs, req[r].user_id) # {}

\* The row a configuration body is stored as.
RowOf(user_id, config) ==
    config_row(user_id, config.provider, config.model, config.api_key, config.temperature)

\* A save or update is answered: the user it was accepted for has the row
\* given in it and no other, and every other user's rows are as before; a
\* rejected one changes no row.
ConfigStep ==
    LET call == Get(config_call') IN
    \A u \in Users :
        /\ Cardinality(rows_of(llm_configs', u)) <= 1
        /\ rows_of(llm_configs', u) =
              IF call.status = 200 /\ call.user_id = u
              THEN {RowOf(u, call.config)}
              ELSE rows_of(llm_configs, u)

\* C24: after any sequence of save/update configuration operations by any
\* users, each user has at most one stored provider configuration, and it
\* equals the one given in that user's most recent successful save; a save
\* rejected for an unsupported provider or an out-of-range temperature
\* leaves the stored configuration unchanged.
OneConfigurationPerUser == [][ConfigStep]_vars

\* Both users have a stored configuration, and the last save, by user 1 and
\* rejected, asked for another one.
RejectedSaveOverStoredConfiguration ==
    /\ config_call # None
    /\ Get(config_call).user_id = 1
    /\ Get(config_call).status = 400
    /\ \A u \in Users : Cardinality(rows_of(llm_configs, u)) = 1
    /\ RowOf(1, Get(config_call).config) \notin llm_configs

\* The settings a request asks for: the configuration it read, with its own
\* model and temperature where it carries them.
OwnSettings(llm_config, request) ==
    [provider |-> llm_config.provider,
     api_key |-> Some(llm_config.api_key),
     model |-> Some(IF request.model # None THEN Get(request.model) ELSE llm_config.model),
     temperature |-> IF request.temperature # None THEN Get(request.temperature)
                     ELSE llm_config.temperature,
     client |-> "open"]

\* A step of a request: it changes no other request and no stored
\* configuration; the configuration it reads is the stored one of its user;
\* the adapter it configures is a new one, with a client of its own, set from
\* that configuration and its own overrides, and is not reconfigured later.
IsolationStep ==
    \A r \in DOMAIN req :
        /\ req'[r] # req[r] =>
              /\ llm_configs' = llm_configs
              /\ \A q \in DOMAIN req \ {r} : req'[q] = req[q]
        /\ (req[r].pc = "idle" /\ req'[r].pc = "config") =>
              req'[r].llm_config = get_llm_config(llm_configs, req'[r].user_id)
        /\ (req[r].adapter = None /\ req'[r].adapter # None) =>
              Get(req'[r].adapter) = OwnSettings(Get(req[r].llm_config), Get(req[r].request))
        /\ req[r].adapter # None => req'[r].adapter = req[r].adapter

\* C25: for any interleaving of concurrent process_chat_request calls (same
\* or different users), each request uses its own adapter instance and its
\* own network client, and a model or temperature override carried by one
\* request affects only that request: it changes neither the configuration
\* used by any other in-flight request nor the user's persisted
\* configuration.
OverridesStayInTheirRequest == [][IsolationStep]_vars

\* Two requests of one user are in flight, the first with a model and a
\* temperature override, the second with none, and their adapters differ.
OverriddenAndPlainRequestInFlight ==
    /\ req[1].pc = "reasoning" /\ req[2].pc = "reasoning"
    /\ req[1].user_id = req[2].user_id
    /\ Get(req[1].request).model # None /\ Get(req[1].request).temperature # None
    /\ Get(req[2].request).model = None /\ Get(req[2].request).temperature = None
    /\ Get(req[1].adapter).model # Get(req[2].adapter).model
    /\ Get(req[1].adapter).temperature # Get(req[2].adapter).temperature

\* The rows of the sessions table recorded under a session id.
SessionRows(session_id) == {row \in sessions : row.session_id = session_id}

\* The messages of a request as role/content pairs.
OriginalMessages(request) ==
    [i \in 1..Len(request.messages) |->
        [role |-> request.messages[i].role, content |-> request.messages[i].content]]

\* C26: every ChatResponse returned by process_chat_request has been handed
\* to session recording before the return: exactly one session is saved per
\* returned response, its session_id equals the response id, and it holds
\* that request's original messages and the agent's tools_used list; a
\* request that fails before the envelope is assembled records no session.
SessionRecordedBeforeReturn ==
    /\ \A r \in DOMAIN req :
          LET f == req[r] IN
          /\ f.pc = "returned" =>
                SessionRows(Get(f.response).id) =
                    {[session_id |-> Get(f.response).id,
                      user_id |-> f.user_id,
                      messages |-> json_dumps(OriginalMessages(Get(f.request))),
                      response |-> json_dumps(Get(f.response)),
                      tools_used |-> json_dumps(Get(f.agent_response).tools_used)]}
          /\ (f.pc = "raised" /\ f.response = None) => SessionRows(r) = {}
    /\ \A row \in sessions :
          \E r \in DOMAIN req :
              req[r].pc = "returned" /\ Get(req[r].response).id = row.session_id

\* A response was returned for a request of two messages after the agent
\* ran a tool, and its session is in the table.
ReturnedAfterToolRun ==
    \E r \in DOMAIN req :
        /\ req[r].pc = "returned"
        /\ Len(Get(req[r].request).messages) = 2
        /\ Len(Get(req[r].run).intermediate_steps) > 0
        /\ SessionRows(r) # {}

\* The positions of the user-role messages of a list.
UserPositions(messages) == {i \in DOMAIN messages : messages[i].role = "user"}

\* A list without its k-th member.
Without(messages, k) ==
    SubSeq(messages, 1, k - 1) \o SubSeq(messages, k + 1, Len(messages))

\* Each message as the structured message of its role.
Structured(messages) ==
    [i \in DOMAIN messages |->
        [type |-> CASE messages[i].role = "system" -> "SystemMessage"
                    [] messages[i].role = "assistant" -> "AIMessage"
                    [] OTHER -> "HumanMessage",
         content |-> messages[i].content]]

\* C27: the agent loop's immediate input is the content of the latest
\* user-role message of the request, and its chat history is every other
\* earlier message (system, user or assistant) in original order, each mapped
\* to the structured message of the same role; for every non-empty message
\* list, including ones whose last message is not a user message.
InputIsLatestUserMessage ==
    \A r \in DOMAIN req :
        (req[r].run # None /\ UserPositions(req[r].messages) # {}) =>
            LET messages == req[r].messages
                latest == CHOOSE k \in UserPositions(messages) :
                              \A j \in UserPositions(messages) : j <= k
                inputs == Get(req[r].run).inputs
            IN /\ inputs.input = messages[latest].content
               /\ inputs.chat_history = Structured(Without(messages, latest))

\* C28: the temperature with which an adapter is configured for a request is
\* always within [0.0, 2.0], whether it comes from the stored configuration
\* or from the request's temperature override.
AdapterTemperatureInRange ==
    \A r \in DOMAIN req :
        req[r].adapter # None =>
            /\ 0 <= Get(req[r].adapter).temperature
            /\ Get(req[r].adapter).temperature <= 20

\* The request that recorded a session id, as the user who made it.
RecordedBy(user_id, session_id) ==
    \E r \in DOMAIN req :
        /\ req[r].pc = "returned"
        /\ req[r].user_id = user_id
        /\ Get(req[r].response).id = session_id

\* C30: session isolation.  After any sequence of chat requests by any
\* users, get_session_by_id(user, session_id) returns a session only if that
\* session was recorded by a request of that same user, and
\* get_user_sessions(user) lists only that user's sessions; a user can never
\* read a session recorded for another user, even when supplying its exact
\* session id.
SessionIsolation ==
    lookup # None =>
        LET l == Get(lookup) IN
        /\ (l.op = "get_session" /\ l.body # None) =>
              /\ RecordedBy(l.user_id, Get(l.session_id))
              /\ Get(l.body).session_id = Get(l.session_id)
              /\ Get(l.body).user_id = l.user_id
        /\ l.op = "list_sessions" =>
              \A sid \in Get(l.body) : RecordedBy(l.user_id, sid)

\* A user asked for the session another user recorded, by its exact id, and
\* got 404.
OtherUsersSessionNotFound ==
    /\ lookup # None
    /\ Get(lookup).op = "get_session"
    /\ Get(lookup).status = 404
    /\ \E u \in Users \ {Get(lookup).user_id} : RecordedBy(u, Get(Get(lookup).session_id))
====
